---- MODULE Spec2Model ----
(***************************************************************************)
(* Model of numba_dppy/core/passes/dppy_lowerer.py: the dual-path lowerer  *)
(* DPPYLower (device attempt, rollback to the CPU path), the kernel        *)
(* outliner's effects on the host IR, the launch-sequence generator and    *)
(* the iteration-space scheduler _schedule_loop.                           *)
(***************************************************************************)
EXTENDS Integers, Sequences, FiniteSets, TLC

(***************************************************************************)
(* Object graph.  Python objects live in a heap, a sequence of records;    *)
(* an object's identity is its index.  kind is the branch that             *)
(* relatively_deep_copy takes for the object:                              *)
(*   "exempt"  types, signatures, strings, ...: returned as is             *)
(*   "fndesc"  FunctionDescriptor   "funcir"  FunctionIR                   *)
(*   "list" "dict" "odict" "tuple" "set"   containers                      *)
(*   "obj"     any other object (Block, Var, Assign, Parfor, ...)          *)
(* atoms are the immutable string/number attributes (or the string keys of *)
(* a dict), aset the string members of a set, refs the references to other *)
(* heap objects (for a dict the values, for an odict key,value,key,...).   *)
(***************************************************************************)
O(kind, cls, atoms, aset, refs) ==
    [kind |-> kind, cls |-> cls, atoms |-> atoms, aset |-> aset, refs |-> refs]

NoMemo == [x \in {} |-> 0]

(***************************************************************************)
(* relatively_deep_copy(obj, memo).  The recursion is kept as an explicit  *)
(* call stack: a frame is one activation that is copying the object o into *)
(* cpy (0 while the copy is not built yet); todo are the attributes or     *)
(* items still to copy, done the copies made so far.  The activation of    *)
(* DPPYLower.__init__ is the frame of kind "init" at the bottom.           *)
(***************************************************************************)
Frame(o, cpy, kind, todo, done) ==
    [o |-> o, cpy |-> cpy, kind |-> kind, todo |-> todo, done |-> done]

\* variant: a copy that shares the IR objects (Block, Var, Parfor, ...) instead of
\* copying them
ExemptOrObject(h, o) == h[o].kind \in {"exempt", "obj"}

\* objects which shouldn't or can't be copied: returned as they are
Exempt(h, o) == h[o].kind = "exempt"

\* list, dict, set: copy.copy, clear, then filled item by item
Containers == {"list", "dict", "odict", "set"}

\* the attributes or items of which copies are made: for a
\* FunctionDescriptor typemap, calltypes and argtypes (global_dict, refs[4],
\* and the rest are passed as they are)
CopiedRefs(ob) == IF ob.kind = "fndesc" THEN SubSeq(ob.refs, 1, 3) ELSE ob.refs

\* a result r reaches the activation on top of st: setattr(cpy, key, r) for
\* an object, cpy.append(r) / cpy[key] = r / cpy.add(r) for a container, an
\* argument of the constructor call otherwise
Deliver(h, st, r) ==
    LET f == st[Len(st)]
    IN  [h |-> IF f.kind = "obj" THEN [h EXCEPT ![f.cpy].refs[Len(f.done) + 1] = r]
               ELSE IF f.kind \in Containers THEN [h EXCEPT ![f.cpy].refs = Append(@, r)]
               ELSE h,
         stack |-> [st EXCEPT ![Len(st)] =
                       [f EXCEPT !.todo = Tail(f.todo), !.done = Append(f.done, r)]]]

\* a new activation for o: an object is copied (copy.copy) and put in the
\* memo at once; a container is copied and cleared, its memo entry is made
\* when it is full; tuple, FunctionIR and FunctionDescriptor are built from
\* the copies of their parts
Activate(h, memo, o) ==
    LET ob == h[o]
    IN  IF ob.kind = "obj"
        THEN [h |-> Append(h, ob), memo |-> (o :> (Len(h) + 1)) @@ memo,
              frame |-> Frame(o, Len(h) + 1, "obj", ob.refs, <<>>)]
        ELSE IF ob.kind \in Containers
        THEN [h |-> Append(h, [ob EXCEPT !.refs = <<>>]), memo |-> memo,
              frame |-> Frame(o, Len(h) + 1, ob.kind, ob.refs, <<>>)]
        ELSE [h |-> h, memo |-> memo,
              frame |-> Frame(o, 0, ob.kind, CopiedRefs(ob), <<>>)]

\* the activation f has copied all its parts: the copy it returns, and the
\* heap and memo it leaves
Complete(h, memo, f) ==
    IF f.kind = "obj" THEN [h |-> h, memo |-> memo, res |-> f.cpy]
    ELSE IF f.kind \in Containers
    THEN [h |-> h, memo |-> (f.o :> f.cpy) @@ memo, res |-> f.cpy]
    ELSE [h |-> Append(h, [h[f.o] EXCEPT !.refs =
                              f.done \o SubSeq(h[f.o].refs, Len(f.done) + 1, Len(h[f.o].refs))]),
          memo |-> (f.o :> (Len(h) + 1)) @@ memo,
          res |-> Len(h) + 1]

(***************************************************************************)
(* Structural identity of object graphs.  Every object reachable from the  *)
(* roots is named by its least access path (shortest first, then           *)
(* lexicographic): the position of a root followed by attribute positions. *)
(* The canonical form is the set of the objects' contents with every       *)
(* reference replaced by the access path of its target.  Two graphs have   *)
(* the same canonical form iff they have the same shape and sharing.       *)
(***************************************************************************)
SeqRange(s) == {s[i] : i \in 1..Len(s)}

LexLess(p, q) ==
    \E i \in 1..Len(p) : i <= Len(q) /\ p[i] < q[i] /\ \A j \in 1..(i - 1) : p[j] = q[j]

Least(ps) == CHOOSE p \in ps : \A q \in ps : p = q \/ LexLess(p, q)

\* the access path of o in the set P of pairs <<object, path>>
PathOf(P, o) == (CHOOSE c \in P : c[1] = o)[2]

RECURSIVE Paths(_, _, _)
\* P: the access paths found so far, frontier: the pairs found last
Paths(h, P, frontier) ==
    LET found == {c[1] : c \in P}
        cand  == UNION {{<<h[c[1]].refs[j], Append(c[2], j)>> : j \in 1..Len(h[c[1]].refs)} :
                        c \in frontier}
        new   == {c[1] : c \in cand} \ found
        next  == {<<o, Least({c[2] : c \in {d \in cand : d[1] = o}})>> : o \in new}
    IN  IF new = {} THEN P ELSE Paths(h, P \cup next, next)

AccessPaths(h, roots) ==
    LET first == {<<roots[i], <<i>>>> : i \in {k \in 1..Len(roots) :
                                                 \A j \in 1..(k - 1) : roots[j] # roots[k]}}
    IN  Paths(h, first, first)

Canon(h, roots) ==
    LET P == AccessPaths(h, roots)
    IN  {[path |-> c[2],
          node |-> [h[c[1]] EXCEPT !.refs =
                       [j \in 1..Len(h[c[1]].refs) |-> PathOf(P, h[c[1]].refs[j])]]] :
         c \in P}

(***************************************************************************)
(* The host function handed to DPPYLower: a FunctionDescriptor and a       *)
(* FunctionIR with one block that holds (when hasParfor) one 1-D loop nest *)
(* (parfor.Parfor) whose body reads array a, writes the scalar r and       *)
(* stores into array b.1.  Names are sequences of characters.              *)
(***************************************************************************)
\* identities of the host function's objects
id ==
    [ TyScalar |-> 1,
      TyArray |-> 2,
      SigSetItem |-> 3,
      GlobalDict |-> 4,
      VarA |-> 5,
      VarOut |-> 6,
      VarT |-> 7,
      VarR |-> 8,
      VarIdx |-> 9,
      VarStop |-> 10,
      InstAssignT |-> 11,
      InstAssignR |-> 12,
      InstSetItem |-> 13,
      InstDelT |-> 14,
      BodyList |-> 15,
      BodyBlock |-> 16,
      LoopBodyDict |-> 17,
      InitList |-> 18,
      InitBlock |-> 19,
      ParamsSet |-> 20,
      RacesSet |-> 21,
      LoopNest |-> 22,
      LoopNestList |-> 23,
      ParforNode |-> 24,
      InstDelA |-> 25,
      InstReturn |-> 26,
      HostList |-> 27,
      HostBlock |-> 28,
      BlocksDict |-> 29,
      DefinitionsDict |-> 30,
      FuncIR |-> 31,
      TypeMap |-> 32,
      CallTypes |-> 33,
      ArgTypes |-> 34,
      FnDesc |-> 35,
      TyArray0 |-> 36,
      TyArray2 |-> 37,
      TyInt |-> 38,
      TyIntArray |-> 39 ]

NmA == <<"a">>
NmOut == <<"b", ".", "1">>
NmT == <<"t">>
NmR == <<"r">>
NmIdx == <<"i", ".", "0">>
NmStop == <<"n", ".", "1">>

\* Numba types: a scalar type, and the array type of ndim dimensions
\* (ndim as str() gives it) over the scalar type dtype
ScalarType(cls, name) == O("exempt", cls, <<name>>, {}, <<>>)
ArrayType(ndim, dtype) == O("exempt", "Array", <<ndim>>, {}, <<dtype>>)

\* races: the race variables found by the analysis; stopIsVar: the stop
\* bound is the variable n.1 (else the constant 9); step: the loop step;
\* tyA, tyOut: the types of the arrays a and b.1
HostIR(hasParfor, races, stopIsVar, step, tyA, tyOut) ==
    << ScalarType("Float", <<"f", "8">>),
       ArrayType(<<"1">>, id.TyScalar),
       O("exempt", "Signature", <<>>, {}, <<>>),
       O("dict", "global_dict", <<>>, {}, <<>>),
       O("obj", "Var", <<NmA>>, {}, <<>>),
       O("obj", "Var", <<NmOut>>, {}, <<>>),
       O("obj", "Var", <<NmT>>, {}, <<>>),
       O("obj", "Var", <<NmR>>, {}, <<>>),
       O("obj", "Var", <<NmIdx>>, {}, <<>>),
       O("obj", "Var", <<NmStop>>, {}, <<>>),
       O("obj", "Assign", <<>>, {}, <<id.VarT, id.VarA>>),
       O("obj", "Assign", <<>>, {}, <<id.VarR, id.VarT>>),
       O("obj", "SetItem", <<>>, {}, <<id.VarOut, id.VarIdx, id.VarT>>),
       O("obj", "Del", <<NmT>>, {}, <<>>),
       O("list", "list", <<>>, {}, <<id.InstAssignT, id.InstAssignR, id.InstSetItem, id.InstDelT>>),
       O("obj", "Block", <<>>, {}, <<id.BodyList>>),
       O("dict", "dict", <<<<"1">>>>, {}, <<id.BodyBlock>>),
       O("list", "list", <<>>, {}, <<>>),
       O("obj", "Block", <<>>, {}, <<id.InitList>>),
       O("set", "set", <<>>, {NmA, NmOut}, <<>>),
       O("set", "set", <<>>, races, <<>>),
       O("obj", "LoopNest",
         << <<"0">>, IF stopIsVar THEN NmStop ELSE <<"9">>, step >>, {},
         IF stopIsVar THEN <<id.VarIdx, id.VarStop>> ELSE <<id.VarIdx>>),
       O("list", "list", <<>>, {}, <<id.LoopNest>>),
       O("obj", "Parfor", <<>>, {}, <<id.InitBlock, id.LoopBodyDict, id.LoopNestList, id.ParamsSet, id.RacesSet>>),
       O("obj", "Del", <<NmA>>, {}, <<>>),
       O("obj", "Return", <<>>, {}, <<>>),
       O("list", "list", <<>>, {},
         IF hasParfor THEN <<id.ParforNode, id.InstDelA, id.InstReturn>> ELSE <<id.InstDelA, id.InstReturn>>),
       O("obj", "Block", <<>>, {}, <<id.HostList>>),
       O("dict", "dict", <<<<"0">>>>, {}, <<id.HostBlock>>),
       O("dict", "dict", <<>>, {}, <<>>),
       O("funcir", "FunctionIR", <<>>, {}, <<id.BlocksDict, id.DefinitionsDict>>),
       O("dict", "dict", <<NmA, NmOut, NmT, NmR, NmIdx, NmStop>>, {},
         <<tyA, tyOut, id.TyScalar, id.TyScalar, id.TyInt, id.TyInt>>),
       O("odict", "dict", <<>>, {}, <<id.InstSetItem, id.SigSetItem>>),
       O("tuple", "tuple", <<>>, {}, <<tyA, tyOut>>),
       O("fndesc", "FunctionDescriptor", <<>>, {}, <<id.TypeMap, id.CallTypes, id.ArgTypes, id.GlobalDict>>),
       ArrayType(<<"0">>, id.TyScalar),
       ArrayType(<<"2">>, id.TyScalar),
       ScalarType("Integer", <<"i", "8">>),
       ArrayType(<<"1">>, id.TyInt) >>


(***************************************************************************)
(* Helpers on the heap that model the IR utilities the outliner calls.     *)
(***************************************************************************)
\* the object added by Append(h, ob)
NewId(h) == Len(h) + 1

RECURSIVE remove_dels(_, _)
\* remove_dels(blocks): every block gets a new body list without its ir.Del
\* statements (block.body = new_body); blocks is the sequence of the blocks
remove_dels(h, blocks) ==
    IF blocks = <<>> THEN h
    ELSE LET b    == Head(blocks)
             body == h[h[b].refs[1]]
             kept == SelectSeq(body.refs, LAMBDA i : h[i].cls # "Del")
             h1   == Append(h, [body EXCEPT !.refs = kept])
         IN  remove_dels([h1 EXCEPT ![b].refs[1] = NewId(h)], Tail(blocks))

\* the statements of the blocks of a loop body
HasDels(h, blocks) ==
    \E i \in 1..Len(blocks) :
        \E j \in 1..Len(h[h[blocks[i]].refs[1]].refs) :
            h[h[h[blocks[i]].refs[1]].refs[j]].cls = "Del"

\* names of the variables among the bounds of the loop nests
RangeVarNames(h, nests) ==
    UNION {{h[h[nests[i]].refs[j]].atoms[1] : j \in 2..Len(h[nests[i]].refs)} : i \in 1..Len(nests)}

\* dict lookup and update on a dict with string keys
DictHas(d, k) == \E i \in 1..Len(d.atoms) : d.atoms[i] = k

DictGet(d, k) == d.refs[CHOOSE i \in 1..Len(d.atoms) : d.atoms[i] = k]

DictSet(d, k, v) ==
    IF DictHas(d, k)
    THEN [d EXCEPT !.refs[CHOOSE i \in 1..Len(d.atoms) : d.atoms[i] = k] = v]
    ELSE [d EXCEPT !.atoms = Append(@, k), !.refs = Append(@, v)]

\* name of the index constant made by mk_unique_var("$const_ind_0")
NmConst == <<"$", "c">>

\* variant: a rewrite that does not look into nested loop nests
IsNestedNever(h, inst) == FALSE

\* isinstance(inst, parfor.Parfor)
IsNested(h, inst) == h[inst].cls = "Parfor"

RECURSIVE replace_var_with_array_in_block(_, _, _, _, _, _)
RECURSIVE replace_var_with_array_internal(_, _, _, _, _)
\* replace_var_with_array_in_block: walks the statements stmts of a block;
\* an assignment to a name in vars becomes the assignment of the constant 0
\* to a new variable followed by an indexed store at that variable, each
\* recorded in typemap tm and calltypes ct; the init block and the loop
\* body of a nested loop nest are rewritten in turn.  Returns the heap and
\* the new body.
replace_var_with_array_in_block(vars, h, stmts, tm, ct, acc) ==
    IF stmts = <<>> THEN [h |-> h, body |-> acc]
    ELSE LET inst == Head(stmts) IN
         IF h[inst].cls = "Assign" /\ h[h[inst].refs[1]].atoms[1] \in vars
         THEN LET const_node   == NewId(h)
                  const_var    == const_node + 1
                  const_assign == const_node + 2
                  setitem_node == const_node + 3
                  h1 == h \o << O("obj", "Const", <<<<"0">>>>, {}, <<>>),
                                O("obj", "Var", <<NmConst>>, {}, <<>>),
                                O("obj", "Assign", <<>>, {}, <<const_var, const_node>>),
                                O("obj", "SetItem", <<>>, {},
                                  <<h[inst].refs[1], const_var, h[inst].refs[2]>>) >>
                  h2 == [h1 EXCEPT ![tm] = DictSet(@, NmConst, id.TyInt),
                                   ![ct].refs = @ \o <<setitem_node, id.SigSetItem>>]
              IN  replace_var_with_array_in_block(vars, h2, Tail(stmts), tm, ct,
                                                  acc \o <<const_assign, setitem_node>>)
         ELSE IF IsNested(h, inst)
         THEN LET h1 == replace_var_with_array_internal(vars, h, <<h[inst].refs[1]>>, tm, ct)
                  h2 == replace_var_with_array_internal(vars, h1, h1[h1[inst].refs[2]].refs, tm, ct)
              IN  replace_var_with_array_in_block(vars, h2, Tail(stmts), tm, ct, Append(acc, inst))
         ELSE replace_var_with_array_in_block(vars, h, Tail(stmts), tm, ct, Append(acc, inst))

\* replace_var_with_array_internal: block.body = the rewritten body, for
\* every block of the loop body
replace_var_with_array_internal(vars, h, blocks, tm, ct) ==
    IF blocks = <<>> THEN h
    ELSE LET b  == Head(blocks)
             r  == replace_var_with_array_in_block(vars, h, h[h[b].refs[1]].refs, tm, ct, <<>>)
             h1 == Append(r.h, O("list", "list", <<>>, {}, r.body))
         IN  replace_var_with_array_internal(vars, [h1 EXCEPT ![b].refs[1] = NewId(r.h)],
                                             Tail(blocks), tm, ct)

\* types.npytypes.Array(el_typ, 1, "C")
Array1D(h, el_typ) ==
    CHOOSE t \in 1..Len(h) :
        h[t].kind = "exempt" /\ h[t].cls = "Array" /\ h[t].atoms = <<<<"1">>>> /\ h[t].refs = <<el_typ>>

RECURSIVE PromoteTypes(_, _, _)
\* lines 207-210, on the typemap object d
PromoteTypes(h, d, vars) ==
    IF vars = {} THEN d
    ELSE LET v == CHOOSE x \in vars : TRUE
         IN  PromoteTypes(h, DictSet(d, v, Array1D(h, DictGet(d, v))), vars \ {v})

\* replace_var_with_array: the rewrite, then typemap[v] becomes a 1-D array
\* of the former type for every v in vars
replace_var_with_array(vars, h, blocks, tm, ct) ==
    LET h1 == replace_var_with_array_internal(vars, h, blocks, tm, ct)
    IN  [h1 EXCEPT ![tm] = PromoteTypes(h1, @, vars)]

RECURSIVE legalize_name_once(_)
\* variant: a legalization that leaves the underscore alone
legalize_name_once(n) ==
    IF n = <<>> THEN <<>>
    ELSE (IF Head(n) \in {"$", "."} THEN <<"_">> ELSE <<Head(n)>>) \o legalize_name_once(Tail(n))

RECURSIVE legalize_name(_)
\* ir_utils.legalize_names on one name: "_" becomes "__", "$" and "." "_"
legalize_name(n) ==
    IF n = <<>> THEN <<>>
    ELSE (CASE Head(n) = "_" -> <<"_", "_">>
            [] Head(n) \in {"$", "."} -> <<"_">>
            [] OTHER -> <<Head(n)>>) \o legalize_name(Tail(n))

RECURSIVE legalize_names_with_typemap(_, _, _)
\* legalize_names_with_typemap: the type of every name that legalization
\* changed is entered in the typemap under the legal name
legalize_names_with_typemap(h, names, tm) ==
    IF names = <<>> THEN h
    ELSE LET x == Head(names)
             y == legalize_name(x)
             h1 == IF x # y THEN [h EXCEPT ![tm] = DictSet(@, y, DictGet(h[tm], x))] ELSE h
         IN  legalize_names_with_typemap(h1, Tail(names), tm)

RECURSIVE ReplaceInStmt(_, _, _, _)
\* replace_var_names on one statement: a reference to a Var whose name is in
\* names is replaced by a new Var with the legal name
ReplaceInStmt(h, inst, names, k) ==
    IF k > Len(h[inst].refs) THEN h
    ELSE LET v == h[inst].refs[k] IN
         IF h[v].cls = "Var" /\ h[v].atoms[1] \in names /\ legalize_name(h[v].atoms[1]) # h[v].atoms[1]
         THEN ReplaceInStmt([Append(h, [h[v] EXCEPT !.atoms = <<legalize_name(h[v].atoms[1])>>])
                                EXCEPT ![inst].refs[k] = NewId(h)],
                            inst, names, k + 1)
         ELSE ReplaceInStmt(h, inst, names, k + 1)

RECURSIVE ReplaceInStmts(_, _, _)
ReplaceInStmts(h, stmts, names) ==
    IF stmts = <<>> THEN h
    ELSE ReplaceInStmts(ReplaceInStmt(h, Head(stmts), names, 1), Tail(stmts), names)

RECURSIVE replace_var_names(_, _, _)
replace_var_names(h, blocks, names) ==
    IF blocks = <<>> THEN h
    ELSE replace_var_names(ReplaceInStmts(h, h[h[Head(blocks)].refs[1]].refs, names),
                           Tail(blocks), names)

\* the characters of names, in the order of their code points
CharOrder ==
    <<"$", ".", "0", "1", "2", "3", "4", "5", "6", "7", "8", "9", "_",
      "a", "b", "c", "d", "e", "f", "g", "h", "i", "j", "k", "l", "m",
      "n", "o", "p", "q", "r", "s", "t", "u", "v", "w", "x", "y", "z">>

ord(c) == CHOOSE k \in 1..Len(CharOrder) : CharOrder[k] = c

\* a < b for str
StrLess(a, b) ==
    \/ \E i \in 1..Len(a) :
          /\ i <= Len(b)
          /\ ord(a[i]) < ord(b[i])
          /\ \A j \in 1..(i - 1) : a[j] = b[j]
    \/ Len(a) < Len(b) /\ \A j \in 1..Len(a) : a[j] = b[j]


RECURSIVE sorted(_)
\* sorted(list(S)) for a set of names
sorted(S) ==
    IF S = {} THEN <<>>
    ELSE LET x == CHOOSE y \in S : \A z \in S : z = y \/ StrLess(y, z)
         IN  <<x>> \o sorted(S \ {x})

\* the names of the arrays stored into by the SetItem statements of the
\* blocks
SetItemTargets(h, blocks) ==
    UNION {{h[h[inst].refs[1]].atoms[1] :
            inst \in {x \in SeqRange(h[h[blocks[i]].refs[1]].refs) : h[x].cls = "SetItem"}} :
           i \in 1..Len(blocks)}

\* numba.parfors.parfor.get_parfor_outputs(parfor, parfor_params): the
\* arrays written in the loop body that are parameters, sorted
get_parfor_outputs(h, blocks, parfor_params) ==
    sorted(SetItemTargets(h, blocks) \cap parfor_params)

\* to_scalar_from_0d(x): an array type of no dimension gives its dtype
to_scalar_from_0d(h, x) ==
    IF h[x].cls = "Array" /\ h[x].atoms[1] = <<"0">> THEN h[x].refs[1] ELSE x

\* variant: every array type is tagged, whatever its number of dimensions
is_array_any_rank(h, x) == h[x].cls = "Array"

\* isinstance(to_scalar_from_0d(x), types.npytypes.Array)
is_array_param(h, x) == h[to_scalar_from_0d(h, x)].cls = "Array"

\* addrspace_from(params, def_addr), over the typemap object tm
addrspace_from(h, tm, params, def_addr) ==
    [i \in 1..Len(params) |->
        IF is_array_param(h, DictGet(h[tm], params[i])) THEN def_addr ELSE "None"]

\* npytypes_array_to_dppy_array(ty, addrspace): the device array type
npytypes_array_to_dppy_array(ty, addrspace) ==
    [cls |-> "DPPYArray", of |-> ty, addrspace |-> addrspace]

\* a type that was not converted
NumbaType(ty) == [cls |-> "Numba", of |-> ty, addrspace |-> "None"]

\* ndim of an array type
ndim(h, x) == CHOOSE n \in 0..9 : h[x].atoms[1] = <<CharOrder[n + 3]>>

RECURSIVE num_expanded_args_0d(_, _)
\* variant: an array of no dimension counted as the scalar it holds
num_expanded_args_0d(h, expr_arg_types) ==
    IF expr_arg_types = <<>> THEN 0
    ELSE (IF is_array_param(h, Head(expr_arg_types))
          THEN 5 + (2 * ndim(h, Head(expr_arg_types)))
          ELSE 1) + num_expanded_args_0d(h, Tail(expr_arg_types))

RECURSIVE num_expanded_args(_, _)
\* lines 948-955: the slots of the kernel arguments
num_expanded_args(h, expr_arg_types) ==
    IF expr_arg_types = <<>> THEN 0
    ELSE (IF h[Head(expr_arg_types)].cls = "Array"
          THEN 5 + (2 * ndim(h, Head(expr_arg_types)))
          ELSE 1) + num_expanded_args(h, Tail(expr_arg_types))


(***************************************************************************)
(* Kernel stub text.  Text is a sequence of characters.                    *)
(***************************************************************************)
Ind4 == <<" ", " ", " ", " ">>
TxtAssign == <<" ", "=", " ">>
TxtGlobalId == <<"d", "p", "p", "y", ".", "g", "e", "t", "_", "g", "l", "o", "b", "a", "l", "_", "i", "d", "(">>
TxtCloseNl == <<")", "\n">>
TxtFor == <<"f", "o", "r", " ">>
TxtInRange == <<" ", "i", "n", " ", "r", "a", "n", "g", "e", "(">>
TxtComma == <<",", " ">>
TxtPlusOne == <<" ", "+", " ", "1", ")", ":", "\n">>
Digits == <<"0", "1", "2", "3", "4", "5", "6", "7", "8", "9">>

RECURSIVE str(_)
\* str() of a non-negative integer
str(n) == IF n < 10 THEN <<Digits[n + 1]>> ELSE str(n \div 10) \o <<Digits[(n % 10) + 1]>>

RECURSIVE Repeat(_, _)
Repeat(t, n) == IF n <= 0 THEN <<>> ELSE t \o Repeat(t, n - 1)

\* variant: the bound taken as it is
ParamGetAsIs(param_dict, b) == b

\* param_dict.get(str(b), b), as text
ParamGet(param_dict, b) == IF b \in DOMAIN param_dict THEN param_dict[b] ELSE b

RECURSIVE SchedGlobalIds(_, _, _)
\* first loop of _schedule_loop: one get_global_id line per hardware axis
SchedGlobalIds(eachdim, global_id_dim, legal_loop_indices) ==
    IF eachdim >= global_id_dim THEN <<>>
    ELSE Ind4 \o legal_loop_indices[eachdim + 1] \o TxtAssign \o TxtGlobalId
             \o str(eachdim) \o TxtCloseNl
             \o SchedGlobalIds(eachdim + 1, global_id_dim, legal_loop_indices)

RECURSIVE SchedForLoops(_, _, _, _, _, _)
\* second loop: one for-header per dimension beyond the hardware axes
SchedForLoops(eachdim, global_id_dim, for_loop_dim, legal_loop_indices, loop_ranges, param_dict) ==
    IF eachdim >= for_loop_dim THEN <<>>
    ELSE Repeat(Ind4, 1 + (eachdim - global_id_dim))
             \o TxtFor \o legal_loop_indices[eachdim + 1] \o TxtInRange
             \o ParamGet(param_dict, loop_ranges[eachdim + 1].start) \o TxtComma
             \o ParamGet(param_dict, loop_ranges[eachdim + 1].stop) \o TxtPlusOne
             \o SchedForLoops(eachdim + 1, global_id_dim, for_loop_dim,
                              legal_loop_indices, loop_ranges, param_dict)

RECURSIVE SchedIndent(_, _, _)
\* third loop: the indentation in front of what the caller appends
SchedIndent(eachdim, global_id_dim, for_loop_dim) ==
    IF eachdim >= for_loop_dim THEN <<>>
    ELSE Repeat(Ind4, 1 + (eachdim - global_id_dim))
             \o SchedIndent(eachdim + 1, global_id_dim, for_loop_dim)

\* variant: two hardware axes only
GlobalIdDimTwo(parfor_dim) == IF parfor_dim > 2 THEN 2 ELSE parfor_dim

\* the number of hardware axes used for a loop nest of parfor_dim dimensions
GlobalIdDim(parfor_dim) == IF parfor_dim > 3 THEN 3 ELSE parfor_dim

_schedule_loop(parfor_dim, legal_loop_indices, loop_ranges, param_dict) ==
    LET global_id_dim == GlobalIdDim(parfor_dim)
    IN  SchedGlobalIds(0, global_id_dim, legal_loop_indices)
        \o SchedForLoops(global_id_dim, global_id_dim, parfor_dim,
                         legal_loop_indices, loop_ranges, param_dict)
        \o SchedIndent(global_id_dim, global_id_dim, parfor_dim)


(***************************************************************************)
(* State.                                                                  *)
(***************************************************************************)
VARIABLES
    heap,                   \* the object graph
    stack,                  \* activations of relatively_deep_copy under __init__
    memo,                   \* local of __init__: original -> copy
    gpu_lower,              \* self.gpu_lower: the fndesc and func_ir it lowers
    cpu_lower,              \* self.cpu_lower: the fndesc and func_ir it lowers
    cfg,                    \* the function under compilation and config.FALLBACK_ON_CPU
    lower_extensions,       \* context.lower_extensions[parfor.Parfor]
    lower_extension_parfor, \* local of lower(): the handler read at entry
    pc,                     \* position in DPPYLower.lower() and its callees
    exc,                    \* the exception in flight, "none" if none
    base_lower,             \* self.base_lower
    env,                    \* self.env
    call_helper,            \* self.call_helper
    warnings,               \* warnings emitted by this lowering, in order
    extra_info,             \* metadata["parfor_diagnostics"].extra_info (its keys)
    keep_alive_kernels,     \* the module-level keep-alive list
    queue_refs,             \* queue references acquired and not yet freed
    enqueued,               \* kernels enqueued so far
    sequential_parfor_lowering, \* numba.parfors.parfor.sequential_parfor_lowering
    orig_typemap,           \* local of _lower_parfor_gufunc
    stub,                   \* the kernel stub: "none", "synthesized", "compiled"
    gufunc_txt,             \* the text produced for the kernel stub
    sched_args,             \* arguments of a call of _schedule_loop
    legal,                  \* a call of legalize_names_with_typemap: names and results
    race_args,              \* a call of replace_var_with_array: vars and the loop body
    shape_args,             \* a call of _create_shape_signature: arguments and result
    splice,                 \* the blocks of the stub and of the loop body being spliced
    static_local,           \* a call of DPPYConstantSizeStaticLocalMemoryPass.run_pass
    outline,                \* locals of _lower_parfor_gufunc and _create_gufunc_for_parfor_body
    launcher,               \* the KernelLaunchOps of generate_kernel_launch_ops
    runs,                   \* DPPYLower objects constructed so far
    gpuStarts,              \* times gpu_lower.lower() was entered in this run
    cpuStarts,              \* times cpu_lower.lower() was entered in this run
    snap                    \* observed at entry of lower(): the canonical form of the
                            \* host function (ir) and the handler in the table (table)

vars == <<heap, stack, memo, gpu_lower, cpu_lower, cfg, lower_extensions, lower_extension_parfor,
          pc, exc, base_lower, env, call_helper, warnings, extra_info,
          keep_alive_kernels, queue_refs, enqueued, sequential_parfor_lowering,
          orig_typemap, stub, gufunc_txt, sched_args, legal, race_args,
          shape_args, splice, static_local,
          outline, launcher,
          runs, gpuStarts, cpuStarts, snap>>

lowerVars == <<gpu_lower, cpu_lower, stack, memo>>
irVars == <<heap, lowerVars, orig_typemap>>
outcomeVars == <<base_lower, env, call_helper>>
launchVars == <<keep_alive_kernels, queue_refs, enqueued>>
tableVars == <<lower_extensions, lower_extension_parfor>>
passVars == <<shape_args, splice, static_local>>
schedVars == <<gufunc_txt, sched_args, legal, race_args, passVars>>
gufuncVars == <<outline, launcher>>
runVars == <<cfg, runs, gpuStarts, cpuStarts, snap>>

\* bounds of the model
MaxRuns == 2
MaxDim == 5

Roots(l) == <<l.fndesc, l.func_ir>>

\* the functions and configurations compiled: without a loop nest, or with
\* a loop nest that is plain, has a race variable, a reduction variable (and
\* a race variable), a step of 2, or a race variable and a step of 2; the stop bound a variable
\* or a constant; the arrays of one dimension, or the input of none or the
\* arrays of two; compiled with the noalias flag or without, aliases found
\* among the arrays or not; on a context with or without lower_extensions; with the
\* CPU fallback enabled or not
Kind(hasParfor, races, redvars, stopIsVar, step, tyA, tyOut, noalias, has_aliases) ==
    [hasParfor |-> hasParfor, races |-> races, redvars |-> redvars, stopIsVar |-> stopIsVar,
     step |-> step, tyA |-> tyA, tyOut |-> tyOut, noalias |-> noalias,
     has_aliases |-> has_aliases]

Kinds ==
    { Kind(FALSE, {}, {}, FALSE, 1, id.TyArray, id.TyArray, FALSE, FALSE),
      Kind(TRUE, {}, {}, TRUE, 1, id.TyArray, id.TyArray, FALSE, FALSE),
      Kind(TRUE, {NmR}, {}, FALSE, 1, id.TyArray, id.TyArray, FALSE, TRUE),
      Kind(TRUE, {NmR}, {NmT}, TRUE, 1, id.TyArray, id.TyArray, FALSE, FALSE),
      Kind(TRUE, {}, {}, FALSE, 2, id.TyArray, id.TyArray, FALSE, FALSE),
      Kind(TRUE, {NmR}, {}, TRUE, 2, id.TyArray, id.TyArray, TRUE, FALSE),
      Kind(TRUE, {}, {}, FALSE, 1, id.TyArray0, id.TyArray, TRUE, TRUE),
      Kind(TRUE, {}, {}, TRUE, 1, id.TyArray2, id.TyArray2, TRUE, FALSE),
      Kind(TRUE, {}, {}, FALSE, 1, id.TyArray, id.TyArray2, FALSE, TRUE) }

Configs ==
    {[hasParfor |-> k.hasParfor, races |-> k.races, redvars |-> k.redvars,
      stopIsVar |-> k.stopIsVar, step |-> k.step, tyA |-> k.tyA, tyOut |-> k.tyOut,
      noalias |-> k.noalias, has_aliases |-> k.has_aliases,
      hasExt |-> e, FALLBACK_ON_CPU |-> f] :
     k \in Kinds, e \in BOOLEAN, f \in {0, 1}}

NoSchedArgs == [parfor_dim |-> 0, legal_loop_indices |-> <<>>, loop_ranges |-> <<>>,
                param_dict |-> [x \in {} |-> <<>>]]

NoLower == [fndesc |-> 0, func_ir |-> 0]

NoSnap == [ir |-> {}, table |-> "unbound"]

NoRaceArgs == [vars |-> {}, body |-> <<>>, el_typ |-> 0]

\* no call of _create_shape_signature, no splice, no call of run_pass
NoShapeArgs ==
    [args |-> <<>>, races |-> {}, shape |-> <<>>, max_class |-> 0,
     gu_signature |-> [sin |-> <<>>, sout |-> <<>>]]
NoSplice ==
    [stub |-> <<>>, body |-> <<>>, gufunc_ir |-> <<>>, loop_body |-> <<>>, new_label |-> 0]
NoStaticLocal == [blocks |-> <<>>, result |-> "none"]
NoPassCalls ==
    /\ shape_args = NoShapeArgs
    /\ splice = NoSplice
    /\ static_local = NoStaticLocal

NoLegal == [names |-> <<>>, typemap |-> 0, before |-> <<>>, outdict |-> <<>>, again |-> <<>>]

\* the locals before the statements that assign them
NoOutline ==
    [parfor_output_arrays |-> <<>>, parfor_outputs |-> <<>>, parfor_inputs |-> <<>>,
     parfor_params |-> <<>>, addrspaces |-> <<>>, param_types |-> <<>>,
     param_types_addrspaces |-> <<>>, func_arg_types |-> <<>>, num_inputs |-> 0,
     has_aliases |-> FALSE, flags |-> [noalias |-> FALSE], old_alias |-> FALSE]

\* no argument buffer allocated (-1), no argument processed
NoLauncher == [kernel_arg_array |-> -1, args |-> <<>>]

\* no lowering under way: the state of a process before any function is
\* compiled, but for the object graph and the locals
NoLowering ==
    /\ stack = <<>>
    /\ memo = NoMemo
    /\ gpu_lower = NoLower
    /\ cpu_lower = NoLower
    /\ cfg = [hasParfor |-> FALSE, races |-> {}, redvars |-> {}, stopIsVar |-> FALSE,
              step |-> 1, tyA |-> id.TyArray, tyOut |-> id.TyArray,
              noalias |-> FALSE, has_aliases |-> FALSE,
              hasExt |-> FALSE, FALLBACK_ON_CPU |-> 0]
    /\ lower_extensions = "_lower_parfor_parallel"
    /\ lower_extension_parfor = "unbound"
    /\ exc = "none"
    /\ base_lower = "unset" /\ env = "unset" /\ call_helper = "unset"
    /\ warnings = <<>>
    /\ extra_info = {}
    /\ keep_alive_kernels = <<>>
    /\ queue_refs = 0
    /\ enqueued = <<>>
    /\ sequential_parfor_lowering = FALSE
    /\ orig_typemap = 0
    /\ stub = "none"
    /\ gufunc_txt = <<>>
    /\ runs = 0
    /\ gpuStarts = 0 /\ cpuStarts = 0
    /\ snap = NoSnap

NoCompile ==
    /\ heap = <<>>
    /\ outline = NoOutline
    /\ launcher = NoLauncher
    /\ NoLowering

Init ==
    /\ NoCompile
    /\ pc = "idle"
    /\ sched_args = NoSchedArgs
    /\ legal = NoLegal
    /\ race_args = NoRaceArgs
    /\ NoPassCalls

\* a function is compiled: DPPYLower(context, library, fndesc, func_ir,
\* metadata) is called; this is the entry of __init__, with memo = {} and
\* the two copies to make.  The dispatch table and the keep-alive list are
\* process-wide and stay.
NewCompile ==
    /\ pc \in {"idle", "returned", "raised"}
    /\ runs < MaxRuns
    /\ \E c \in Configs :
        /\ heap' = HostIR(c.hasParfor, c.races, c.stopIsVar, str(c.step), c.tyA, c.tyOut)
        /\ cfg' = c
    /\ stack' = <<Frame(0, 0, "init", <<id.FnDesc, id.FuncIR>>, <<>>)>>
    /\ memo' = NoMemo
    /\ gpu_lower' = NoLower
    /\ cpu_lower' = NoLower
    /\ lower_extension_parfor' = "unbound"
    /\ pc' = "init"
    /\ exc' = "none"
    /\ base_lower' = "unset" /\ env' = "unset" /\ call_helper' = "unset"
    /\ warnings' = <<>>
    /\ extra_info' = {}
    /\ queue_refs' = 0
    /\ sequential_parfor_lowering' = FALSE
    /\ orig_typemap' = 0
    /\ stub' = "none"
    /\ gufunc_txt' = <<>>
    /\ outline' = NoOutline
    /\ launcher' = NoLauncher
    /\ runs' = runs + 1
    /\ gpuStarts' = 0 /\ cpuStarts' = 0
    /\ snap' = NoSnap
    /\ UNCHANGED <<lower_extensions, keep_alive_kernels, enqueued, sched_args, legal, race_args, passVars>>

(***************************************************************************)
(* DPPYLower.__init__, lines 1267-1285                                     *)
(***************************************************************************)
constructVars ==
    <<cfg, runs, gpuStarts, cpuStarts, snap, orig_typemap, outcomeVars, launchVars, tableVars,
      schedVars, gufuncVars, exc, warnings, extra_info, sequential_parfor_lowering, stub>>

\* relatively_deep_copy is called for the next attribute or item of the
\* activation on top: an object found in the memo or exempt from copying is
\* returned at once, any other gets an activation of its own
CallCopy ==
    LET o == Head(stack[Len(stack)].todo)
    IN  IF o \in DOMAIN memo
        THEN /\ heap' = Deliver(heap, stack, memo[o]).h
             /\ stack' = Deliver(heap, stack, memo[o]).stack
             /\ UNCHANGED memo
        ELSE IF Exempt(heap, o)
        THEN /\ heap' = Deliver(heap, stack, o).h
             /\ stack' = Deliver(heap, stack, o).stack
             /\ UNCHANGED memo
        ELSE /\ heap' = Activate(heap, memo, o).h
             /\ memo' = Activate(heap, memo, o).memo
             /\ stack' = Append(stack, Activate(heap, memo, o).frame)

\* a call of relatively_deep_copy made while DPPYLower.__init__ runs
relatively_deep_copy ==
    /\ pc = "init"
    /\ stack[Len(stack)].todo # <<>>
    /\ CallCopy
    /\ UNCHANGED <<gpu_lower, cpu_lower, pc, constructVars>>

\* an activation of relatively_deep_copy returns its copy to its caller
ReturnCopy ==
    LET r == Complete(heap, memo, stack[Len(stack)])
        d == Deliver(r.h, SubSeq(stack, 1, Len(stack) - 1), r.res)
    IN  /\ heap' = d.h
        /\ stack' = d.stack
        /\ memo' = r.memo

CopyReturn ==
    /\ pc = "init"
    /\ Len(stack) > 1
    /\ stack[Len(stack)].todo = <<>>
    /\ ReturnCopy
    /\ UNCHANGED <<gpu_lower, cpu_lower, pc, constructVars>>

\* lines 1274-1284: gpu_lower gets fndesc and func_ir, cpu_lower their copies
ConstructLowers ==
    /\ pc = "init"
    /\ Len(stack) = 1
    /\ stack[1].todo = <<>>
    /\ gpu_lower' = [fndesc |-> id.FnDesc, func_ir |-> id.FuncIR]
    /\ cpu_lower' = [fndesc |-> stack[1].done[1], func_ir |-> stack[1].done[2]]
    /\ stack' = <<>>
    /\ memo' = NoMemo
    /\ pc' = "constructed"
    /\ UNCHANGED <<heap, constructVars>>

(***************************************************************************)
(* DPPYLower.lower()                                                       *)
(***************************************************************************)
\* an exception leaves the handler of the loop nest: except clause of
\* lower_parfor_rollback
RaiseInParfor(cause) == exc' = cause /\ pc' = "rollback_except"

\* an exception reaches the except clause of DPPYLower.lower()
RaiseInLower(cause) == exc' = cause /\ pc' = "lower_except"

\* lines 1340-1351: the handler of parfor.Parfor is read and replaced by
\* lower_parfor_rollback (a context without lower_extensions raises, which
\* is swallowed), then gpu_lower.lower() is entered
LowerInstall ==
    /\ pc = "constructed"
    /\ IF cfg.hasExt
       THEN /\ lower_extension_parfor' = lower_extensions
            /\ lower_extensions' = "lower_parfor_rollback"
       ELSE UNCHANGED tableVars
    /\ gpuStarts' = gpuStarts + 1
    /\ snap' = [ir |-> Canon(heap, Roots(gpu_lower)), table |-> lower_extensions]
    /\ pc' = "gpu_lower"
    /\ UNCHANGED <<irVars, outcomeVars, launchVars, schedVars, gufuncVars, cfg, runs, cpuStarts,
                   exc, warnings, extra_info, sequential_parfor_lowering, stub>>

\* gpu_lower.lower() up to the loop nest, which is dispatched through the
\* table of the context
GpuLowerHost ==
    /\ pc = "gpu_lower"
    /\ \E ok \in BOOLEAN :
        IF ~ok THEN RaiseInLower("host")
        ELSE IF ~cfg.hasParfor THEN pc' = "gpu_rest" /\ UNCHANGED exc
        ELSE IF cfg.hasExt /\ lower_extensions = "lower_parfor_rollback"
             THEN pc' = "parfor_gufunc" /\ UNCHANGED exc
             ELSE RaiseInLower("NotImplementedError")
    /\ UNCHANGED <<irVars, outcomeVars, launchVars, tableVars, schedVars, gufuncVars, runVars,
                   warnings, extra_info, sequential_parfor_lowering, stub>>

\* the loop body's blocks, the typemap and the calltypes gpu_lower works on
LoopBlocks(h) == h[h[id.ParforNode].refs[2]].refs
LoopNests(h) == h[h[id.ParforNode].refs[3]].refs
GpuTypemap(h) == h[id.FnDesc].refs[1]
GpuCalltypes(h) == h[id.FnDesc].refs[2]

\* _lower_parfor_gufunc, lines 699-762: the typemap of the descriptor is
\* replaced by a shallow copy, the init block is lowered, the output arrays
\* are computed from parfor.params, the flags of the loop nest are copied
\* (noalias set or not) and aliases are looked for
ParforGufuncStart ==
    /\ pc = "parfor_gufunc"
    /\ orig_typemap' = GpuTypemap(heap)
    /\ heap' = [Append(heap, heap[GpuTypemap(heap)]) EXCEPT ![id.FnDesc].refs[1] = NewId(heap)]
    /\ \E ok \in BOOLEAN :
        IF ok THEN /\ pc' = "gufunc_dels"
                   /\ sequential_parfor_lowering' = TRUE
                   /\ outline' = [outline EXCEPT
                          !.parfor_output_arrays =
                              get_parfor_outputs(heap, LoopBlocks(heap), heap[id.ParamsSet].aset),
                          !.flags = [noalias |-> cfg.noalias],
                          !.has_aliases = cfg.has_aliases]
                   /\ UNCHANGED exc
        ELSE RaiseInParfor("init_block") /\ UNCHANGED <<sequential_parfor_lowering, outline>>
    /\ UNCHANGED <<lowerVars, outcomeVars, launchVars, tableVars, schedVars, launcher,
                   runVars, warnings, extra_info, stub>>

\* _create_gufunc_for_parfor_body, lines 314-315: the dict of the loop body
\* is copied (its blocks are shared) and the ir.Del statements are removed
OutlineRemoveDels ==
    /\ pc = "gufunc_dels"
    /\ heap' = remove_dels(heap, LoopBlocks(heap))
    /\ pc' = "gufunc_params"
    /\ UNCHANGED <<lowerVars, orig_typemap, outcomeVars, launchVars, tableVars,
                   schedVars, gufuncVars, runVars, exc, warnings, extra_info,
                   sequential_parfor_lowering, stub>>

\* lines 320-332: parfor.params itself is extended by the variables named
\* in the loop bounds; the outputs are the parameters stored into
OutlineParams ==
    /\ pc = "gufunc_params"
    /\ heap' = [heap EXCEPT ![id.ParamsSet].aset = @ \cup RangeVarNames(heap, LoopNests(heap))]
    /\ outline' = [outline EXCEPT !.parfor_outputs =
                       get_parfor_outputs(heap, LoopBlocks(heap), heap'[id.ParamsSet].aset)]
    /\ pc' = "gufunc_reductions"
    /\ UNCHANGED <<lowerVars, orig_typemap, outcomeVars, launchVars, tableVars,
                   schedVars, launcher, runVars, exc, warnings, extra_info,
                   sequential_parfor_lowering, stub>>

\* variant: a check that finds no reduction
has_reduction_never(c) == FALSE

\* line 340: len(parfor_redvars) # 0
has_reduction(c) == c.redvars # {}

\* lines 334-343: a loop nest with reduction variables raises ValueError
\* (the finally clause of _lower_parfor_gufunc resets the flag)
OutlineReductions ==
    /\ pc = "gufunc_reductions"
    /\ IF has_reduction(cfg)
       THEN RaiseInParfor("Reductions are not yet supported via parfor")
            /\ sequential_parfor_lowering' = FALSE
       ELSE pc' = "gufunc_races" /\ UNCHANGED <<exc, sequential_parfor_lowering>>
    /\ UNCHANGED <<irVars, outcomeVars, launchVars, tableVars, schedVars, gufuncVars, runVars,
                   warnings, extra_info, stub>>


\* the safety warning of lines 348-354, one per race variable
RaceWarnings(races) ==
    [i \in 1..Cardinality(races) |->
        [category |-> "NumbaParallelSafetyWarning", msg |-> <<"Variable used in parallel loop">>]]

\* variant: the parameters in one sorted list
ParamsSorted(parfor_inputs, parfor_outputs) ==
    sorted(SeqRange(parfor_inputs) \cup SeqRange(parfor_outputs))

\* line 363: inputs go first, then outputs
ParamsInOrder(parfor_inputs, parfor_outputs) == parfor_inputs \o parfor_outputs

\* lines 346-363: the inputs are the parameters that are not outputs,
\* sorted; a warning per race variable, then every race variable is turned
\* into an array of one element; the parameters are put in order
OutlineRaces ==
    /\ pc = "gufunc_races"
    /\ warnings' = warnings \o RaceWarnings(heap[id.RacesSet].aset)
    /\ heap' = replace_var_with_array(heap[id.RacesSet].aset, heap, LoopBlocks(heap),
                                      GpuTypemap(heap), GpuCalltypes(heap))
    /\ LET parfor_inputs == sorted(heap[id.ParamsSet].aset \ SeqRange(outline.parfor_outputs))
       IN  outline' = [outline EXCEPT
                          !.parfor_inputs = parfor_inputs,
                          !.parfor_params = ParamsInOrder(parfor_inputs, outline.parfor_outputs)]
    /\ pc' = "gufunc_legalize"
    /\ UNCHANGED <<lowerVars, orig_typemap, outcomeVars, launchVars, tableVars,
                   schedVars, launcher, runVars, exc, extra_info, sequential_parfor_lowering, stub>>

\* the names of the index variables of the loop nests
LoopIndices(h) == [i \in 1..Len(LoopNests(h)) |-> h[h[LoopNests(h)[i]].refs[1]].atoms[1]]

\* lines 407-421: the type of every parameter, a rank-0 array taken as
\* its dtype; the types of the tagged parameters are converted to the
\* device array type
ParamTypesAddrspaces(param_types, addrspaces) ==
    [i \in 1..Len(param_types) |->
        IF addrspaces[i] # "None"
        THEN npytypes_array_to_dppy_array(param_types[i], addrspaces[i])
        ELSE NumbaType(param_types[i])]

\* lines 365-454: an address space per parameter; parameter and index
\* names are legalized, in the typemap and in the statements of the loop
\* body; the types of the parameters and of the arguments
OutlineLegalize ==
    /\ pc = "gufunc_legalize"
    /\ LET parfor_params == outline.parfor_params
           loop_indices  == LoopIndices(heap)
           typemap == GpuTypemap(heap)
           addrspaces == addrspace_from(heap, typemap, parfor_params, "global")
           h1 == legalize_names_with_typemap(heap, parfor_params, typemap)
           h2 == legalize_names_with_typemap(h1, loop_indices, typemap)
           param_types == [i \in 1..Len(parfor_params) |->
                              to_scalar_from_0d(h2, DictGet(h2[typemap], parfor_params[i]))]
           h3 == replace_var_names(h2, LoopBlocks(h2), SeqRange(parfor_params))
       IN  /\ heap' = replace_var_names(h3, LoopBlocks(h3), SeqRange(loop_indices))
           /\ outline' = [outline EXCEPT
                  !.addrspaces = addrspaces,
                  !.param_types = param_types,
                  !.param_types_addrspaces = ParamTypesAddrspaces(param_types, addrspaces),
                  !.func_arg_types = [i \in 1..Len(parfor_params) |->
                                         DictGet(h2[typemap], parfor_params[i])]]
    /\ pc' = "gufunc_stub"
    /\ UNCHANGED <<lowerVars, orig_typemap, outcomeVars, launchVars, tableVars,
                   schedVars, launcher, runVars, exc, warnings, extra_info,
                   sequential_parfor_lowering, stub>>

TxtDef == <<"d", "e", "f", " ">>
TxtGufuncName == <<"_", "_", "n", "u", "m", "b", "a", "_", "p", "a", "r", "f", "o", "r", "_", "g", "u", "f", "u", "n", "c">>
TxtSentinel == <<"_", "_", "s", "e", "n", "t", "i", "n", "e", "l", "_", "_">>
TxtZeroNl == <<" ", "=", " ", "0", "\n">>
TxtReturn == <<"r", "e", "t", "u", "r", "n", " ", "N", "o", "n", "e", "\n">>

RECURSIVE Join(_, _)
\* sep.join(parts)
Join(sep, parts) ==
    IF parts = <<>> THEN <<>>
    ELSE IF Len(parts) = 1 THEN parts[1]
    ELSE parts[1] \o sep \o Join(sep, Tail(parts))

\* lines 468-484: the text of the kernel stub
GufuncText(parfor_params, parfor_dim, legal_loop_indices, loop_ranges, param_dict) ==
    TxtDef \o TxtGufuncName \o <<"(">> \o Join(TxtComma, parfor_params) \o <<")", ":", "\n">>
    \o _schedule_loop(parfor_dim, legal_loop_indices, loop_ranges, param_dict)
    \o Ind4 \o TxtSentinel \o TxtZeroNl
    \o Ind4 \o TxtReturn

\* (start, stop, step) of every loop nest, each bound as str() gives it
LoopRanges(h) ==
    [i \in 1..Len(LoopNests(h)) |->
        [start |-> h[LoopNests(h)[i]].atoms[1],
         stop  |-> h[LoopNests(h)[i]].atoms[2],
         step  |-> h[LoopNests(h)[i]].atoms[3]]]

\* lines 455-518: the stub text is built, executed and run through the
\* front end
OutlineStub ==
    /\ pc = "gufunc_stub"
    /\ LET param_dict == [n \in SeqRange(outline.parfor_params) |-> legalize_name(n)]
           parfor_params == [i \in 1..Len(outline.parfor_params) |->
                                param_dict[outline.parfor_params[i]]]
           legal_loop_indices == [i \in 1..Len(LoopIndices(heap)) |->
                                     legalize_name(LoopIndices(heap)[i])]
       IN  gufunc_txt' = GufuncText(parfor_params, Len(LoopNests(heap)), legal_loop_indices,
                                    LoopRanges(heap), param_dict)
    /\ \E ok \in BOOLEAN :
        IF ok THEN pc' = "gufunc_splice" /\ stub' = "synthesized" /\ UNCHANGED exc
        ELSE /\ RaiseInParfor("frontend")
             /\ UNCHANGED stub
    /\ sequential_parfor_lowering' = (pc' = "gufunc_splice")
    /\ UNCHANGED <<irVars, outcomeVars, launchVars, tableVars, sched_args, legal, race_args, passVars, gufuncVars, runVars,
                   warnings, extra_info>>

\* lines 534-624: labels are offset, the device is recorded in the
\* diagnostics, the loop body is spliced into the stub: the last block of
\* the loop body gets a jump appended to its body list
OutlineSplice ==
    /\ pc = "gufunc_splice"
    /\ \E ok \in BOOLEAN :
        IF ok
        THEN /\ extra_info' = extra_info \cup {"parfor"}
             /\ LET last == LoopBlocks(heap)[Len(LoopBlocks(heap))]
                IN  heap' = [Append(heap, O("obj", "Jump", <<>>, {}, <<>>))
                                EXCEPT ![heap[last].refs[1]].refs = Append(@, NewId(heap))]
             /\ pc' = "gufunc_compile"
             /\ UNCHANGED <<exc, sequential_parfor_lowering>>
        ELSE /\ RaiseInParfor("queue")
             /\ sequential_parfor_lowering' = FALSE
             /\ UNCHANGED <<heap, extra_info>>
    /\ UNCHANGED <<lowerVars, orig_typemap, outcomeVars, launchVars, tableVars,
                   schedVars, gufuncVars, runVars, warnings, stub>>

\* the flag as an exception raised between lines 639 and 677 leaves it
NoAliasAsLeft(old_alias, noalias) == noalias

\* lines 635-639: the flag is saved, and set when no aliases were found
OutlineNoAlias ==
    /\ pc = "gufunc_compile"
    /\ outline' = [outline EXCEPT
                      !.old_alias = outline.flags.noalias,
                      !.flags.noalias = IF ~outline.has_aliases THEN TRUE ELSE @]
    /\ pc' = "gufunc_backend"
    /\ UNCHANGED <<irVars, outcomeVars, launchVars, tableVars, schedVars, launcher, runVars,
                   exc, warnings, extra_info, sequential_parfor_lowering, stub>>

\* lines 641-682: dead code removal, inlining and the backend compilation
\* of the kernel, any of which may raise; then the flag is put back and the
\* outliner returns.  The finally clause of line 784 follows either way,
\* and after a return the number of inputs of line 790
OutlineCompile ==
    /\ pc = "gufunc_backend"
    /\ \E cause \in {"none", "remove_dead", "dufunc_inliner", "backend"} :
        IF cause = "none"
        THEN /\ pc' = "launch_queue"
             /\ stub' = "compiled"
             /\ outline' = [outline EXCEPT
                    !.flags.noalias = outline.old_alias,
                    !.num_inputs = Len(outline.parfor_params) - Len(outline.parfor_output_arrays)]
             /\ UNCHANGED exc
        ELSE /\ RaiseInParfor(cause)
             /\ outline' = [outline EXCEPT
                    !.flags.noalias = NoAliasAsLeft(outline.old_alias, outline.flags.noalias)]
             /\ UNCHANGED stub
    /\ sequential_parfor_lowering' = FALSE
    /\ UNCHANGED <<irVars, outcomeVars, launchVars, tableVars, schedVars, launcher, runVars,
                   warnings, extra_info>>


(***************************************************************************)
(* generate_kernel_launch_ops                                              *)
(***************************************************************************)
\* the compiled kernel of this lowering
Cres == runs

\* lines 943-946: the launcher is made and the current queue acquired
LaunchAcquire ==
    /\ pc = "launch_queue"
    /\ queue_refs' = queue_refs + 1
    /\ pc' = "launch_alloc"
    /\ UNCHANGED <<irVars, outcomeVars, keep_alive_kernels, enqueued, tableVars, schedVars, gufuncVars,
                   runVars, exc, warnings, extra_info, sequential_parfor_lowering, stub>>

\* lines 948-962: the argument slots are counted and the buffer allocated
LaunchAllocate ==
    /\ pc = "launch_alloc"
    /\ \E ok \in BOOLEAN :
        IF ok THEN /\ pc' = "launch_keep"
                   /\ launcher' = [launcher EXCEPT !.kernel_arg_array =
                                      num_expanded_args(heap, outline.func_arg_types)]
                   /\ UNCHANGED exc
        ELSE RaiseInParfor("allocate_kernel_arg_array") /\ UNCHANGED launcher
    /\ UNCHANGED <<irVars, outcomeVars, launchVars, tableVars, schedVars, outline, runVars,
                   warnings, extra_info, sequential_parfor_lowering, stub>>

\* variant: the kernel is not kept
keep_alive_skipped(kernels, cres) == kernels

\* line 990: keep_alive_kernels.append(cres)
keep_alive_append(kernels, cres) == Append(kernels, cres)

\* lines 964-990: the arguments are resolved (a failure gives None) and the
\* kernel is appended to keep_alive_kernels
LaunchKeepAlive ==
    /\ pc = "launch_keep"
    /\ keep_alive_kernels' = keep_alive_append(keep_alive_kernels, Cres)
    /\ pc' = "launch_args"
    /\ UNCHANGED <<irVars, outcomeVars, queue_refs, enqueued, tableVars, schedVars, gufuncVars,
                   runVars, exc, warnings, extra_info, sequential_parfor_lowering, stub>>

\* lines 995-1025: one turn of the loop, the next argument is processed
\* into the buffer; after the last the loop is left
LaunchArgs ==
    /\ pc = "launch_args"
    /\ IF Len(launcher.args) < Len(outline.parfor_params)
       THEN \E ok \in BOOLEAN :
              IF ok THEN /\ launcher' = [launcher EXCEPT !.args =
                                            Append(@, outline.parfor_params[Len(@) + 1])]
                         /\ UNCHANGED <<pc, exc>>
              ELSE RaiseInParfor("process_kernel_arg") /\ UNCHANGED launcher
       ELSE pc' = "launch_ranges" /\ UNCHANGED <<exc, launcher>>
    /\ UNCHANGED <<irVars, outcomeVars, launchVars, tableVars, schedVars, outline, runVars,
                   warnings, extra_info, sequential_parfor_lowering, stub>>

\* variant: no check of the step
step_unchecked(step) == TRUE

\* line 1039: step == 1
step_is_one(step) == step = str(1)

\* lines 1027-1041: the bounds are loaded; assert step == 1
LaunchRanges ==
    /\ pc = "launch_ranges"
    /\ IF \A i \in 1..Len(LoopRanges(heap)) : step_is_one(LoopRanges(heap)[i].step)
       THEN pc' = "launch_enqueue" /\ UNCHANGED exc
       ELSE RaiseInParfor("AssertionError")
    /\ UNCHANGED <<irVars, outcomeVars, launchVars, tableVars, schedVars, gufuncVars, runVars,
                   warnings, extra_info, sequential_parfor_lowering, stub>>

\* line 1043: the kernel is enqueued over the range
LaunchEnqueue ==
    /\ pc = "launch_enqueue"
    /\ \E ok \in BOOLEAN :
        IF ok THEN pc' = "launch_free" /\ enqueued' = Append(enqueued, Cres) /\ UNCHANGED exc
        ELSE RaiseInParfor("enqueue_kernel_and_copy_back") /\ UNCHANGED enqueued
    /\ UNCHANGED <<irVars, outcomeVars, keep_alive_kernels, queue_refs, tableVars, schedVars, gufuncVars,
                   runVars, warnings, extra_info, sequential_parfor_lowering, stub>>

\* line 1046: the queue is freed; line 829: _lower_parfor_gufunc puts the
\* original typemap back; lower_parfor_rollback returns
LaunchFree ==
    /\ pc = "launch_free"
    /\ queue_refs' = queue_refs - 1
    /\ heap' = [heap EXCEPT ![id.FnDesc].refs[1] = orig_typemap]
    /\ pc' = "gpu_rest"
    /\ UNCHANGED <<lowerVars, orig_typemap, outcomeVars, keep_alive_kernels,
                   enqueued, tableVars, schedVars, gufuncVars, runVars, exc, warnings, extra_info,
                   sequential_parfor_lowering, stub>>

(***************************************************************************)
(* lower_parfor_rollback and the rest of DPPYLower.lower()                 *)
(***************************************************************************)
device_filter_str == "level_zero:gpu:0"

\* variant: a message that carries the cause
FailedToOffloadDueTo ==
    <<"Failed to offload parfor to ", device_filter_str, ". Due to:", exc>>

\* the message of lines 1422-1430
FailedToOffloadMsg ==
    <<"Failed to offload parfor to ", device_filter_str,
      ". Falling back to default CPU parallelization. Please file a bug report">>

\* lines 1418-1433: the device is queried, the performance warning is
\* emitted and the exception raised again
RollbackExcept ==
    /\ pc = "rollback_except"
    /\ \E ok \in BOOLEAN :
        IF ok
        THEN /\ warnings' = Append(warnings, [category |-> "NumbaPerformanceWarning",
                                              msg |-> FailedToOffloadMsg])
             /\ UNCHANGED exc
        ELSE exc' = "get_current_queue (rollback)" /\ UNCHANGED warnings
    /\ pc' = "lower_except"
    /\ UNCHANGED <<irVars, outcomeVars, launchVars, tableVars, schedVars, gufuncVars, runVars,
                   extra_info, sequential_parfor_lowering, stub>>

\* the rest of gpu_lower.lower() after the loop nest
GpuLowerRest ==
    /\ pc = "gpu_rest"
    /\ \E ok \in BOOLEAN :
        IF ok THEN pc' = "gpu_diag" /\ UNCHANGED exc
        ELSE RaiseInLower("host")
    /\ UNCHANGED <<irVars, outcomeVars, launchVars, tableVars, schedVars, gufuncVars, runVars,
                   warnings, extra_info, sequential_parfor_lowering, stub>>

\* variant: the override left in the table
KeepsOverride(read) == "lower_parfor_rollback"

\* line 1364: the handler put back in the table is the one read at entry
RestoredHandler(read) == read

\* lines 1352-1368: a function without diagnostics is a kernel; the outcome
\* is gpu_lower and the handler read at entry is put back
LowerSuccess ==
    /\ pc = "gpu_diag"
    /\ \E ok \in BOOLEAN :
        IF extra_info = {} /\ ~ok
        THEN /\ RaiseInLower("get_current_queue (kernel)")
             /\ UNCHANGED <<extra_info, base_lower, lower_extensions>>
        ELSE /\ extra_info' = IF extra_info = {} THEN {"kernel"} ELSE extra_info
             /\ base_lower' = "gpu_lower"
             /\ IF cfg.hasExt
                THEN lower_extensions' = RestoredHandler(lower_extension_parfor)
                ELSE UNCHANGED lower_extensions
             /\ pc' = "finish"
             /\ UNCHANGED exc
    /\ UNCHANGED <<irVars, env, call_helper, launchVars, lower_extension_parfor, schedVars, gufuncVars,
                   runVars, warnings, sequential_parfor_lowering, stub>>

\* variant: the fallback taken whatever the configuration says
FallbackAlways(c) == TRUE

\* variant: no fallback whatever the configuration says
FallbackNever(c) == FALSE

\* line 1384: config.FALLBACK_ON_CPU == 1
FallbackEnabled(c) == c.FALLBACK_ON_CPU = 1

\* variant: an exception of lower() that lands in its own except clause again
RaiseToCallerRetry(cause) == exc' = cause /\ pc' = "lower_except"

\* an exception leaves DPPYLower.lower(): raise e of line 1391, or the
\* exception of cpu_lower.lower() at line 1388, which no clause catches
RaiseToCaller(cause) == exc' = cause /\ pc' = "raised"

\* variant: an except clause that tries the device again
LowerExceptRetriesDevice ==
    /\ pc = "lower_except"
    /\ gpuStarts' = gpuStarts + 1
    /\ pc' = "gpu_lower"
    /\ UNCHANGED <<irVars, outcomeVars, launchVars, tableVars, schedVars, gufuncVars,
                   cfg, runs, cpuStarts, snap, exc, warnings, extra_info,
                   sequential_parfor_lowering, stub>>

\* lines 1369-1391: with the fallback enabled the sequential handler is
\* installed and cpu_lower.lower() entered, else the exception is raised
LowerExcept ==
    /\ pc = "lower_except"
    /\ IF FallbackEnabled(cfg)
       THEN /\ lower_extensions' = "_lower_parfor_parallel"
            /\ cpuStarts' = cpuStarts + 1
            /\ pc' = "cpu_lower"
            /\ UNCHANGED exc
       ELSE /\ RaiseToCaller(exc)
            /\ UNCHANGED <<lower_extensions, cpuStarts>>
    /\ UNCHANGED <<irVars, outcomeVars, launchVars, lower_extension_parfor, schedVars, gufuncVars,
                   cfg, runs, gpuStarts, snap, warnings, extra_info,
                   sequential_parfor_lowering, stub>>

\* lines 1388-1389: cpu_lower.lower(); its exception leaves lower()
CpuLower ==
    /\ pc = "cpu_lower"
    /\ \E ok \in BOOLEAN :
        IF ok THEN base_lower' = "cpu_lower" /\ exc' = "none" /\ pc' = "finish"
        ELSE RaiseToCaller("cpu_lower") /\ UNCHANGED base_lower
    /\ UNCHANGED <<irVars, env, call_helper, launchVars, tableVars, schedVars, gufuncVars, runVars,
                   warnings, extra_info, sequential_parfor_lowering, stub>>

\* lines 1393-1394
LowerFinish ==
    /\ pc = "finish"
    /\ env' = base_lower
    /\ call_helper' = base_lower
    /\ pc' = "returned"
    /\ UNCHANGED <<irVars, base_lower, launchVars, tableVars, schedVars, gufuncVars, runVars,
                   exc, warnings, extra_info, sequential_parfor_lowering, stub>>

Next ==
    \/ NewCompile
    \/ relatively_deep_copy
    \/ CopyReturn
    \/ ConstructLowers
    \/ LowerInstall
    \/ GpuLowerHost
    \/ ParforGufuncStart
    \/ OutlineRemoveDels
    \/ OutlineParams
    \/ OutlineReductions
    \/ OutlineRaces
    \/ OutlineLegalize
    \/ OutlineStub
    \/ OutlineSplice
    \/ OutlineNoAlias
    \/ OutlineCompile
    \/ LaunchAcquire
    \/ LaunchAllocate
    \/ LaunchKeepAlive
    \/ LaunchArgs
    \/ LaunchRanges
    \/ LaunchEnqueue
    \/ LaunchFree
    \/ RollbackExcept
    \/ GpuLowerRest
    \/ LowerSuccess
    \/ LowerExcept
    \/ CpuLower
    \/ LowerFinish

Spec == Init /\ [][Next]_vars


(***************************************************************************)
(* The iteration-space scheduler on its own: _schedule_loop is applied to  *)
(* loop nests of 1..MaxDim dimensions whose bounds are constants or        *)
(* variables, the variables renamed by param_dict.                         *)
(***************************************************************************)
NmStart == <<"m", ".", "2">>

\* the index variable of dimension d (from 0), legalized
LegalIndex(d) == legalize_name(<<"i", ".">> \o str(d))

\* the bounds a dimension may have, as (start, stop, step)
RangeChoices ==
    [start : {<<"0">>, NmStart}, stop : {<<"9">>, NmStop}, step : {str(1)}]

SchedInputs ==
    UNION {[parfor_dim : {D},
            legal_loop_indices : {[d \in 1..D |-> LegalIndex(d - 1)]},
            loop_ranges : [1..D -> RangeChoices],
            param_dict : {[n \in {NmStart, NmStop} |-> legalize_name(n)]}] : D \in 1..MaxDim}

InitSched ==
    /\ NoCompile
    /\ pc = "sched"
    /\ sched_args \in SchedInputs
    /\ legal = NoLegal
    /\ race_args = NoRaceArgs
    /\ NoPassCalls

ScheduleLoop ==
    /\ pc = "sched"
    /\ gufunc_txt' = _schedule_loop(sched_args.parfor_dim, sched_args.legal_loop_indices,
                                    sched_args.loop_ranges, sched_args.param_dict)
    /\ pc' = "scheduled"
    /\ UNCHANGED <<irVars, outcomeVars, launchVars, tableVars, sched_args, legal, race_args, passVars, gufuncVars, runVars,
                   exc, warnings, extra_info, sequential_parfor_lowering, stub>>

NextSched == ScheduleLoop

SpecSched == InitSched /\ [][NextSched]_vars


(***************************************************************************)
(* legalize_names_with_typemap on its own: it is applied to a list of      *)
(* distinct names that are keys of a typemap, then to the names it         *)
(* returned.                                                               *)
(***************************************************************************)
MaxNames == 2

\* names with and without the characters that legalization replaces
NamePool == {<<"a">>, <<"a", ".", "1">>, <<"a", "$", "1">>, <<"a", "_", "1">>, <<"b", "_">>}

\* the typemap of a call: the dict object at the end of a heap of types
LegalHeap(names, types) ==
    << ScalarType("Float", <<"f", "8">>),
       ArrayType(<<"1">>, id.TyScalar),
       O("dict", "dict", names, {}, types) >>

LegalInputs ==
    UNION {{[names |-> n, types |-> t] :
            n \in {x \in [1..k -> NamePool] : \A i, j \in 1..k : i # j => x[i] # x[j]},
            t \in [1..k -> {id.TyScalar, id.TyArray}]} : k \in 1..MaxNames}

\* ir_utils.legalize_names: assert new_name not in var_map, the names
\* entered so far
LegalizeAsserts(names) ==
    \E i \in 1..Len(names) : \E j \in 1..(i - 1) : legalize_name(names[i]) = names[j]

InitLegal ==
    /\ NoLowering
    /\ outline = NoOutline
    /\ launcher = NoLauncher
    /\ pc = "legal"
    /\ sched_args = NoSchedArgs
    /\ race_args = NoRaceArgs
    /\ NoPassCalls
    /\ \E in \in LegalInputs :
        /\ heap = LegalHeap(in.names, in.types)
        /\ legal = [NoLegal EXCEPT !.names = in.names, !.typemap = 3]

\* the call legalize_names_with_typemap(names, typemap)
Legalize ==
    /\ pc = "legal"
    /\ IF LegalizeAsserts(legal.names)
       THEN pc' = "legal_raised" /\ exc' = "AssertionError" /\ UNCHANGED <<heap, legal>>
       ELSE /\ heap' = legalize_names_with_typemap(heap, legal.names, legal.typemap)
            /\ legal' = [legal EXCEPT !.before = heap[legal.typemap],
                                      !.outdict = [i \in 1..Len(legal.names) |->
                                                      legalize_name(legal.names[i])]]
            /\ pc' = "legalized"
            /\ UNCHANGED exc
    /\ UNCHANGED <<lowerVars, orig_typemap, outcomeVars, launchVars, tableVars, gufunc_txt,
                   sched_args, race_args, passVars, gufuncVars, runVars, warnings, extra_info,
                   sequential_parfor_lowering, stub>>

\* the call legalize_names_with_typemap on the names the first call returned
LegalizeAgain ==
    /\ pc = "legalized"
    /\ IF LegalizeAsserts(legal.outdict)
       THEN pc' = "legal_raised" /\ exc' = "AssertionError" /\ UNCHANGED <<heap, legal>>
       ELSE /\ heap' = legalize_names_with_typemap(heap, legal.outdict, legal.typemap)
            /\ legal' = [legal EXCEPT !.again = [i \in 1..Len(legal.outdict) |->
                                                    legalize_name(legal.outdict[i])]]
            /\ pc' = "legalized_twice"
            /\ UNCHANGED exc
    /\ UNCHANGED <<lowerVars, orig_typemap, outcomeVars, launchVars, tableVars, gufunc_txt,
                   sched_args, race_args, passVars, gufuncVars, runVars, warnings, extra_info,
                   sequential_parfor_lowering, stub>>

NextLegal == Legalize \/ LegalizeAgain

SpecLegal == InitLegal /\ [][NextLegal]_vars


(***************************************************************************)
(* replace_var_with_array on its own: it is applied to the loop body of    *)
(* the host function, filled with assignments to the race variable r and   *)
(* to t and with loop nests nested up to MaxDepth deep.                    *)
(***************************************************************************)
MaxDepth == 2

\* a statement of a loop body: an assignment var = value, an indexed store
\* var[index] = value, or a nested loop nest with an init block and a body
St(op, var, value, index, init, body) ==
    [op |-> op, var |-> var, value |-> value, index |-> index, init |-> init, body |-> body]

AssignR == St("assign", NmR, NmT, <<>>, <<>>, <<>>)
AssignT == St("assign", NmT, NmA, <<>>, <<>>, <<>>)
Nested(init, body) == St("parfor", <<>>, <<>>, <<>>, init, body)

RECURSIVE Bodies(_)
\* the bodies with loop nests nested up to d deep
Bodies(d) ==
    IF d = 0 THEN {<<>>, <<AssignR>>, <<AssignT, AssignR>>, <<AssignR, AssignR>>}
    ELSE Bodies(d - 1) \cup
         {pre \o <<Nested(init, body)>> :
             pre \in {<<>>, <<AssignR>>}, init \in {<<>>, <<AssignR>>}, body \in Bodies(d - 1)}

\* the ir.Var of a name
NameVar(n) == CASE n = NmR -> id.VarR [] n = NmT -> id.VarT [] n = NmA -> id.VarA

RECURSIVE BuildStmts(_, _, _)
\* the IR objects of the statements stmts, added to heap h; returns the heap
\* and the statements' identities
BuildStmts(h, stmts, acc) ==
    IF stmts = <<>> THEN [h |-> h, ids |-> acc]
    ELSE LET st == Head(stmts) IN
         IF st.op = "assign"
         THEN BuildStmts(Append(h, O("obj", "Assign", <<>>, {}, <<NameVar(st.var), NameVar(st.value)>>)),
                         Tail(stmts), Append(acc, NewId(h)))
         ELSE LET i  == BuildStmts(h, st.init, <<>>)
                  h1 == i.h \o << O("list", "list", <<>>, {}, i.ids),
                                  O("obj", "Block", <<>>, {}, <<NewId(i.h)>>) >>
                  init_block == NewId(i.h) + 1
                  b  == BuildStmts(h1, st.body, <<>>)
                  h2 == b.h \o << O("list", "list", <<>>, {}, b.ids),
                                  O("obj", "Block", <<>>, {}, <<NewId(b.h)>>),
                                  O("dict", "dict", <<<<"1">>>>, {}, <<NewId(b.h) + 1>>),
                                  O("obj", "Parfor", <<>>, {}, <<init_block, NewId(b.h) + 2>>) >>
              IN  BuildStmts(h2, Tail(stmts), Append(acc, NewId(b.h) + 3))

\* the host function with the loop body stmts followed by its own store
\* into b.1, the race variable r of type el_typ
RaceHeap(stmts, el_typ) ==
    LET h0 == HostIR(TRUE, {NmR}, FALSE, <<"1">>, id.TyArray, id.TyArray)
        b  == BuildStmts([h0 EXCEPT ![id.TypeMap] = DictSet(@, NmR, el_typ)], stmts, <<>>)
    IN  [b.h EXCEPT ![id.BodyList].refs = Append(b.ids, id.InstSetItem)]

InitRaces ==
    /\ NoLowering
    /\ outline = NoOutline
    /\ launcher = NoLauncher
    /\ pc = "races"
    /\ sched_args = NoSchedArgs
    /\ legal = NoLegal
    /\ NoPassCalls
    /\ \E body \in Bodies(MaxDepth), el_typ \in {id.TyScalar, id.TyInt} :
        /\ race_args = [vars |-> {NmR}, body |-> body, el_typ |-> el_typ]
        /\ heap = RaceHeap(body, el_typ)

\* the call replace_var_with_array(races, loop_body, typemap, calltypes)
ReplaceVarWithArray ==
    /\ pc = "races"
    /\ heap' = replace_var_with_array(race_args.vars, heap, LoopBlocks(heap),
                                      GpuTypemap(heap), GpuCalltypes(heap))
    /\ pc' = "raced"
    /\ UNCHANGED <<lowerVars, orig_typemap, outcomeVars, launchVars, tableVars, schedVars,
                   gufuncVars, runVars, exc, warnings, extra_info,
                   sequential_parfor_lowering, stub>>

NextRaces == ReplaceVarWithArray

SpecRaces == InitRaces /\ [][NextRaces]_vars


(***************************************************************************)
(* _create_shape_signature on its own, lines 832-897.  The shape classes   *)
(* that get_shape_classes gives are drawn for every argument; a letter is  *)
(* the code point chr() is applied to.                                     *)
(***************************************************************************)
MaxArgs == 3
MaxClass == 1

\* the arguments of a kernel
ArgPool == {NmA, NmOut, NmR}

\* the lists of up to n distinct arguments
RECURSIVE ArgLists(_)
ArgLists(n) ==
    IF n = 0 THEN {<<>>}
    ELSE ArgLists(n - 1) \cup
         UNION {{Append(l, x) : x \in ArgPool \ SeqRange(l)} :
                l \in {m \in ArgLists(n - 1) : Len(m) = n - 1}}

\* what get_shape_classes gives for an argument: a class per dimension,
\* -1 for a dimension of unknown class, nothing for a scalar
ClassValues == (0 - 1)..MaxClass
ShapeClasses == {<<>>} \cup {<<c>> : c \in ClassValues} \cup {<<c, d>> : c, d \in ClassValues}

\* line 853: args[1:]
args_from_second(args) == IF args = <<>> THEN <<>> ELSE Tail(args)

\* get_shape_classes(var, typemap=typemap), shape holding the classes of
\* the arguments in their order
get_shape_classes(var, args, shape) ==
    shape[CHOOSE k \in 1..Len(args) : args[k] = var]

\* lines 851-854: the classes of the arguments, (-1,) for a race variable
ArgClasses(args, races, shape) ==
    LET rest == args_from_second(args)
    IN  [k \in 1..Len(rest) |->
            IF rest[k] \notin races THEN get_shape_classes(rest[k], args, shape) ELSE <<0 - 1>>]

\* lines 855-859: the set of the classes
ClassSet(classes) == UNION {SeqRange(classes[k]) : k \in 1..Len(classes)}

SetMax(S) == CHOOSE x \in S : \A y \in S : y <= x

\* line 860: max(class_set) + 1 if class_set else 0
max_class_of(class_set) == IF class_set # {} THEN SetMax(class_set) + 1 ELSE 0

\* lines 863-869: class_map, a letter from "a" on for every class that is
\* not negative (97 is ord("a")), and the letter reached
ClassMap(class_set) ==
    [n \in {c \in class_set : c >= 0} |-> 97 + Cardinality({c \in class_set : 0 <= c /\ c < n})]

\* variant: the letter reached is not moved on
bump_alpha_stale(latest_alpha) == latest_alpha

\* line 877: alpha_dict["latest_alpha"] += 1
bump_alpha_fresh(latest_alpha) == latest_alpha + 1

RECURSIVE DimSyms(_, _, _, _)
\* lines 873-878, 893: tuple(bump_alpha(c, class_map) for c in cls), with
\* the letter reached before and after
DimSyms(cls, class_map, latest_alpha, acc) ==
    IF cls = <<>> THEN [syms |-> acc, latest_alpha |-> latest_alpha]
    ELSE IF Head(cls) >= 0
    THEN DimSyms(Tail(cls), class_map, latest_alpha, Append(acc, class_map[Head(cls)]))
    ELSE DimSyms(Tail(cls), class_map, bump_alpha_fresh(latest_alpha),
                 Append(acc, bump_alpha_fresh(latest_alpha)))

RECURSIVE GuSin(_, _, _, _, _)
\* lines 890-897: one entry per pair of zip(classes, args)
GuSin(classes, n, class_map, latest_alpha, acc) ==
    IF classes = <<>> \/ n = 0 THEN acc
    ELSE LET d == DimSyms(Head(classes), class_map, latest_alpha, <<>>)
         IN  GuSin(Tail(classes), n - 1, class_map, d.latest_alpha, Append(acc, d.syms))

\* _create_shape_signature(get_shape_classes, num_inputs, args, func_sig,
\* races, typemap)
_create_shape_signature(args, races, shape) ==
    LET rest_classes == ArgClasses(args, races, shape)
        max_class == max_class_of(ClassSet(rest_classes))
        classes   == <<<<max_class>>>> \o rest_classes
        class_set == ClassSet(rest_classes) \cup {max_class}
        class_map == ClassMap(class_set)
        alphabet  == 97 + Cardinality({c \in class_set : c >= 0})
    IN  [sin |-> GuSin(classes, Len(args), class_map, alphabet, <<>>), sout |-> <<>>]

InitShape ==
    /\ NoLowering
    /\ heap = <<>>
    /\ outline = NoOutline
    /\ launcher = NoLauncher
    /\ pc = "shape"
    /\ sched_args = NoSchedArgs
    /\ legal = NoLegal
    /\ race_args = NoRaceArgs
    /\ splice = NoSplice
    /\ static_local = NoStaticLocal
    /\ \E args \in ArgLists(MaxArgs) :
        \E races \in SUBSET SeqRange(args), shape \in [1..Len(args) -> ShapeClasses] :
            shape_args = [NoShapeArgs EXCEPT !.args = args, !.races = races, !.shape = shape]

\* the call of line 803
CreateShapeSignature ==
    /\ pc = "shape"
    /\ shape_args' = [shape_args EXCEPT
           !.max_class = max_class_of(ClassSet(ArgClasses(shape_args.args, shape_args.races,
                                                          shape_args.shape))),
           !.gu_signature = _create_shape_signature(shape_args.args, shape_args.races,
                                                    shape_args.shape)]
    /\ pc' = "shaped"
    /\ UNCHANGED <<irVars, outcomeVars, launchVars, tableVars, gufunc_txt, sched_args, legal,
                   race_args, splice, static_local, gufuncVars, runVars, exc, warnings,
                   extra_info, sequential_parfor_lowering, stub>>

NextShape == CreateShapeSignature

SpecShape == InitShape /\ [][NextShape]_vars


(***************************************************************************)
(* The splice of the loop body into the kernel stub on its own, lines      *)
(* 534-613.  A dict of blocks is a function from its labels to the bodies  *)
(* of the blocks; the stub has the sentinel assignment in one block.       *)
(***************************************************************************)
MaxLabel == 3

\* a statement: op with the label it jumps to (0 when it does not jump)
Stmt(op, target) == [op |-> op, target |-> target]
Sentinel == Stmt("__sentinel__ = 0", 0)
Jump(target) == Stmt("jump", target)

\* d[k] = v on a dict
DictPut(d, k, v) == [x \in DOMAIN d \cup {k} |-> IF x = k THEN v ELSE d[x]]

SetMin(S) == CHOOSE x \in S : \A y \in S : x <= y

\* the label sets of a dict of blocks
LabelSets == (SUBSET (0..MaxLabel)) \ {{}}

\* the stubs: the block at label at holds the statements pre, the sentinel
\* assignment and the statements post; the other blocks a statement each
Stubs ==
    UNION {{[l \in L |-> IF l = at
                         THEN pre \o <<Sentinel>> \o
                              (IF loops THEN <<Stmt("next", 0), Jump(at)>> ELSE <<Stmt("return", 0)>>)
                         ELSE <<Stmt("stub", 0), Jump(at)>>] :
               at \in L, pre \in {<<>>, <<Stmt("gid", 0)>>}, loops \in BOOLEAN} :
           L \in LabelSets}

\* the loop bodies: every block but the last jumps to the next
LoopBodies ==
    {[l \in L |-> IF l = SetMax(L) THEN <<Stmt("body", 0)>>
                  ELSE <<Stmt("body", 0), Jump(SetMin({m \in L : m > l}))>>] :
        L \in LabelSets}

\* variant: the labels left as they are
offset_none(l, offset) == l

\* l + offset
offset_label(l, offset) == l + offset

\* numba.core.ir_utils.add_offset_to_labels(blocks, offset): labels and
\* the targets of the closing jumps are moved by offset
add_offset_to_labels(blocks, offset) ==
    [l \in {offset_label(k, offset) : k \in DOMAIN blocks} |->
        LET b == blocks[CHOOSE k \in DOMAIN blocks : offset_label(k, offset) = l]
        IN  IF b # <<>> /\ b[Len(b)].op = "jump"
            THEN [b EXCEPT ![Len(b)] = Jump(offset_label(b[Len(b)].target, offset))]
            ELSE b]

RECURSIVE PutAll(_, _, _)
\* lines 605-606: gufunc_ir.blocks[l] = b for the blocks of the loop body
PutAll(d, blocks, labels) ==
    IF labels = {} THEN d
    ELSE LET l == SetMin(labels)
         IN  PutAll(DictPut(d, l, blocks[l]), blocks, labels \ {l})

\* the block of the stub that holds the sentinel assignment, and where
HasSentinel(b) == \E i \in 1..Len(b) : b[i] = Sentinel
SentinelLabel(blocks) == CHOOSE l \in DOMAIN blocks : HasSentinel(blocks[l])
SentinelIndex(b) == CHOOSE i \in 1..Len(b) : b[i] = Sentinel

\* lines 578-616: the block of the sentinel is split around it and the
\* blocks of the loop body are put between the halves
SpliceBlocks(blocks, loop_body, new_label) ==
    LET label == SentinelLabel(blocks)
        block == blocks[label]
        i     == SentinelIndex(block)
        body_first_label == SetMin(DOMAIN loop_body)
        body_last_label  == SetMax(DOMAIN loop_body)
        prev_block == Append(SubSeq(block, 1, i - 1), Jump(body_first_label))
        rest  == SubSeq(block, i + 1, Len(block))
        b1 == PutAll(blocks, loop_body, DOMAIN loop_body)
        b2 == DictPut(b1, new_label, rest)
        b3 == DictPut(b2, label, prev_block)
    IN  DictPut(b3, body_last_label, Append(b3[body_last_label], Jump(new_label)))

InitSplice ==
    /\ NoLowering
    /\ heap = <<>>
    /\ outline = NoOutline
    /\ launcher = NoLauncher
    /\ pc = "splice"
    /\ sched_args = NoSchedArgs
    /\ legal = NoLegal
    /\ race_args = NoRaceArgs
    /\ shape_args = NoShapeArgs
    /\ static_local = NoStaticLocal
    /\ \E stub_blocks \in Stubs, body \in LoopBodies :
        splice = [NoSplice EXCEPT !.stub = stub_blocks, !.body = body,
                                  !.gufunc_ir = stub_blocks, !.loop_body = body]

\* lines 534-540: the labels of the loop body are moved past those of the
\* stub and the label of the second half of the sentinel block is chosen
SpliceOffset ==
    /\ pc = "splice"
    /\ LET gufunc_stub_last_label == SetMax(DOMAIN splice.gufunc_ir) + 1
           loop_body == add_offset_to_labels(splice.loop_body, gufunc_stub_last_label)
       IN  splice' = [splice EXCEPT !.loop_body = loop_body,
                                    !.new_label = SetMax(DOMAIN loop_body) + 1]
    /\ pc' = "splice_blocks"
    /\ UNCHANGED <<irVars, outcomeVars, launchVars, tableVars, gufunc_txt, sched_args, legal,
                   race_args, shape_args, static_local, gufuncVars, runVars, exc, warnings,
                   extra_info, sequential_parfor_lowering, stub>>

\* lines 578-616
SpliceSentinel ==
    /\ pc = "splice_blocks"
    /\ splice' = [splice EXCEPT
           !.gufunc_ir = SpliceBlocks(splice.gufunc_ir, splice.loop_body, splice.new_label)]
    /\ pc' = "spliced"
    /\ UNCHANGED <<irVars, outcomeVars, launchVars, tableVars, gufunc_txt, sched_args, legal,
                   race_args, shape_args, static_local, gufuncVars, runVars, exc, warnings,
                   extra_info, sequential_parfor_lowering, stub>>

NextSplice == SpliceOffset \/ SpliceSentinel

SpecSplice == InitSplice /\ [][NextSplice]_vars


(***************************************************************************)
(* The text of the kernel stub on its own: lines 468-484 of                *)
(* _create_gufunc_for_parfor_body for loop nests of 1..MaxDim dimensions.  *)
(***************************************************************************)
\* the legal names of the kernel's parameters
StubParams ==
    {<<>>, <<legalize_name(NmA)>>, <<legalize_name(NmOut)>>,
     <<legalize_name(NmA), legalize_name(NmOut)>>, <<legalize_name(NmOut), legalize_name(NmA)>>}

\* loop nests of D dimensions; the bounds of the dimensions bound to a
\* hardware axis do not appear in the text
StubInputs ==
    UNION {[parfor_params : StubParams,
            parfor_dim : {D},
            legal_loop_indices : {[d \in 1..D |-> LegalIndex(d - 1)]},
            loop_ranges : {r \in [1..D -> RangeChoices] :
                              \A d \in 1..GlobalIdDim(D) : r[d] = [start |-> <<"0">>, stop |-> NmStop, step |-> str(1)]},
            param_dict : {[n \in {NmStart, NmStop} |-> legalize_name(n)]}] : D \in 1..MaxDim}

InitStub ==
    /\ NoCompile
    /\ pc = "stub"
    /\ sched_args \in StubInputs
    /\ legal = NoLegal
    /\ race_args = NoRaceArgs
    /\ NoPassCalls

\* lines 468-484: "def", _schedule_loop, the sentinel assignment, the return
GufuncStubText ==
    /\ pc = "stub"
    /\ gufunc_txt' = GufuncText(sched_args.parfor_params,
                                sched_args.parfor_dim, sched_args.legal_loop_indices,
                                sched_args.loop_ranges, sched_args.param_dict)
    /\ pc' = "stub_text"
    /\ UNCHANGED <<irVars, outcomeVars, launchVars, tableVars, sched_args, legal, race_args, passVars, gufuncVars, runVars,
                   exc, warnings, extra_info, sequential_parfor_lowering, stub>>

NextStub == GufuncStubText

SpecStub == InitStub /\ [][NextStub]_vars


(***************************************************************************)
(* relatively_deep_copy on its own: relatively_deep_copy(obj, {}) is       *)
(* called on the first object of a graph of up to MaxObjects objects, each *)
(* an object with attributes, a list or an object exempt from copying.     *)
(* The interpreter raises RecursionError when the activations are MaxStack *)
(* deep.                                                                   *)
(***************************************************************************)
MaxObjects == 2
MaxStack == 8

\* obj of the outermost call: the first object of the graph
CopySource == 1

\* the attributes or items of an object of a graph
RefChoices ==
    {<<>>} \cup {<<i>> : i \in 1..MaxObjects} \cup {<<i, j>> : i, j \in 1..MaxObjects}

\* the objects of a graph
ObjectChoices ==
    {O("obj", "Block", <<>>, {}, r) : r \in RefChoices}
    \cup {O("list", "list", <<>>, {}, r) : r \in RefChoices}
    \cup {O("exempt", "Type", <<>>, {}, <<>>)}

InitCopy ==
    /\ gpu_lower = NoLower
    /\ cpu_lower = NoLower
    /\ memo = NoMemo
    /\ stack = <<Frame(0, 0, "init", <<CopySource>>, <<>>)>>
    /\ \E n \in 1..MaxObjects : heap \in [1..n -> ObjectChoices]
    /\ \A o \in 1..Len(heap) : \A k \in 1..Len(heap[o].refs) : heap[o].refs[k] <= Len(heap)
    /\ pc = "copy"
    /\ cfg = [hasParfor |-> FALSE, races |-> {}, redvars |-> {}, stopIsVar |-> FALSE,
              step |-> 1, tyA |-> id.TyArray, tyOut |-> id.TyArray,
              noalias |-> FALSE, has_aliases |-> FALSE,
              hasExt |-> FALSE, FALLBACK_ON_CPU |-> 0]
    /\ lower_extensions = "_lower_parfor_parallel"
    /\ lower_extension_parfor = "unbound"
    /\ exc = "none"
    /\ base_lower = "unset" /\ env = "unset" /\ call_helper = "unset"
    /\ warnings = <<>>
    /\ extra_info = {}
    /\ keep_alive_kernels = <<>>
    /\ queue_refs = 0
    /\ enqueued = <<>>
    /\ sequential_parfor_lowering = FALSE
    /\ orig_typemap = 0
    /\ stub = "none"
    /\ gufunc_txt = <<>>
    /\ runs = 0
    /\ gpuStarts = 0 /\ cpuStarts = 0
    /\ snap = NoSnap
    /\ outline = NoOutline
    /\ launcher = NoLauncher
    /\ sched_args = NoSchedArgs
    /\ legal = NoLegal
    /\ race_args = NoRaceArgs
    /\ NoPassCalls

\* the next call needs an activation of its own
NeedsActivation ==
    LET o == Head(stack[Len(stack)].todo)
    IN  o \notin DOMAIN memo /\ ~Exempt(heap, o)

\* relatively_deep_copy is called for the next attribute or item
CopyCall ==
    /\ pc = "copy"
    /\ stack[Len(stack)].todo # <<>>
    /\ NeedsActivation => Len(stack) < MaxStack
    /\ CallCopy
    /\ UNCHANGED <<gpu_lower, cpu_lower, pc, constructVars>>

\* the call that would make the activations more than MaxStack deep
CopyRecursionError ==
    /\ pc = "copy"
    /\ stack[Len(stack)].todo # <<>>
    /\ NeedsActivation
    /\ Len(stack) >= MaxStack
    /\ exc' = "RecursionError"
    /\ pc' = "copy_raised"
    /\ UNCHANGED <<irVars, cfg, runs, gpuStarts, cpuStarts, snap, outcomeVars, launchVars,
                   tableVars, schedVars, gufuncVars, warnings, extra_info,
                   sequential_parfor_lowering, stub>>

\* an activation returns its copy to its caller
CopyReturned ==
    /\ pc = "copy"
    /\ Len(stack) > 1
    /\ stack[Len(stack)].todo = <<>>
    /\ ReturnCopy
    /\ UNCHANGED <<gpu_lower, cpu_lower, pc, constructVars>>

\* the outermost call has returned: stack[1].done[1] is the copy
CopyDone ==
    /\ pc = "copy"
    /\ Len(stack) = 1
    /\ stack[1].todo = <<>>
    /\ pc' = "copied"
    /\ UNCHANGED <<irVars, cfg, runs, gpuStarts, cpuStarts, snap, outcomeVars, launchVars,
                   tableVars, schedVars, gufuncVars, exc, warnings, extra_info,
                   sequential_parfor_lowering, stub>>

NextCopy == CopyCall \/ CopyRecursionError \/ CopyReturned \/ CopyDone

SpecCopy == InitCopy /\ [][NextCopy]_vars

\* the interpreter runs the call on
SpecCopyFair == SpecCopy /\ WF_vars(NextCopy)


(***************************************************************************)
(* DPPYConstantSizeStaticLocalMemoryPass.run_pass on its own               *)
(* (dppy_passes.py): functions of up to MaxBlocks blocks of up to          *)
(* MaxInstrs instructions, each a call of numba_dppy.local.array or        *)
(* another instruction.  The shape of a local array is a variable whose    *)
(* definition is an ir.Const, an ir.Arg, an ir.Expr that builds a tuple of *)
(* such variables, or another ir.Expr (an arithmetic expression).          *)
(***************************************************************************)
MaxBlocks == 2
MaxInstrs == 2

\* the definition of a shape variable: func_ir.get_definition(arg.name)
ShapeDefinitions ==
    {[kind |-> "Const", items |-> <<>>], [kind |-> "Arg", items |-> <<>>],
     [kind |-> "binop", items |-> <<>>]}
    \cup {[kind |-> "build_tuple", items |-> t] :
              t \in {<<"Const">>, <<"Arg">>, <<"Const", "Const">>, <<"Const", "Arg">>}}

Instructions ==
    {[op |-> "other", shape |-> [kind |-> "none", items |-> <<>>]]}
    \cup {[op |-> "local.array", shape |-> d] : d \in ShapeDefinitions}

RECURSIVE BlockBodies(_)
\* the block bodies of 1..n instructions
BlockBodies(n) ==
    IF n = 0 THEN {}
    ELSE {<<i>> : i \in Instructions}
         \cup {Append(b, i) : b \in {c \in BlockBodies(n - 1) : Len(c) = n - 1}, i \in Instructions}
         \cup BlockBodies(n - 1)

\* lines 129-137: a single value that is not a constant sets error and
\* leaves the loop over the instructions of the block (break)
single_breaks == "break"

\* lines 112-137: what the check of the shape of one local array does:
\* "ok" (error stays False), "raise" (error is True and line 139 is
\* reached), "break" (the loop over the block is left), "KeyError" (the
\* definition is an ir.Expr without items)
check_shape(d) ==
    IF d.kind = "build_tuple"
    THEN IF \E k \in 1..Len(d.items) : d.items[k] # "Const" THEN "raise" ELSE "ok"
    ELSE IF d.kind = "binop" THEN "KeyError"
    ELSE IF d.kind = "Const" THEN "ok"
    ELSE single_breaks

RECURSIVE check_block(_, _)
\* lines 76-146: the loop over the instructions of a block from index i
check_block(body, i) ==
    IF i > Len(body) THEN "ok"
    ELSE IF body[i].op # "local.array" THEN check_block(body, i + 1)
    ELSE LET c == check_shape(body[i].shape)
         IN  IF c = "ok" THEN check_block(body, i + 1)
             ELSE IF c = "break" THEN "ok"
             ELSE c

RECURSIVE run_pass(_)
\* lines 73-153: the blocks are popped off the end of the work list; lines
\* 139-146 warn and execute a bare raise (RuntimeError); line 153 returns
\* True
run_pass(work_list) ==
    IF work_list = <<>> THEN "True"
    ELSE LET c == check_block(work_list[Len(work_list)], 1)
         IN  IF c = "raise" THEN "RuntimeError"
             ELSE IF c = "KeyError" THEN "KeyError"
             ELSE run_pass(SubSeq(work_list, 1, Len(work_list) - 1))

InitStaticLocal ==
    /\ NoLowering
    /\ heap = <<>>
    /\ outline = NoOutline
    /\ launcher = NoLauncher
    /\ pc = "pass"
    /\ sched_args = NoSchedArgs
    /\ legal = NoLegal
    /\ race_args = NoRaceArgs
    /\ shape_args = NoShapeArgs
    /\ splice = NoSplice
    /\ \E n \in 1..MaxBlocks : \E blocks \in [1..n -> BlockBodies(MaxInstrs)] :
        static_local = [blocks |-> blocks, result |-> "none"]

RunPass ==
    /\ pc = "pass"
    /\ static_local' = [static_local EXCEPT !.result = run_pass(static_local.blocks)]
    /\ pc' = "pass_done"
    /\ UNCHANGED <<irVars, outcomeVars, launchVars, tableVars, gufunc_txt, sched_args, legal,
                   race_args, shape_args, splice, gufuncVars, runVars, exc, warnings,
                   extra_info, sequential_parfor_lowering, stub>>

NextStaticLocal == RunPass

SpecStaticLocal == InitStaticLocal /\ [][NextStaticLocal]_vars


(***************************************************************************)
(* Properties of the dual-path lowerer (specification Spec).               *)
(***************************************************************************)
\* lower() has been called and the device attempt has ended in its except
\* clause
DeviceFailed == pc \in {"lower_except", "cpu_lower", "raised"} \/ cpuStarts > 0

\* the exceptions of the unsupported constructs: a reduction loop nest
\* (ValueError) and a step other than 1 (AssertionError)
Unsupported == {"Reductions are not yet supported via parfor", "AssertionError"}

\* the exceptions that only the except clause of lower() sees: they are
\* raised outside lower_parfor_rollback, or by its own except clause
OutsideHandler ==
    {"host", "NotImplementedError", "get_current_queue (kernel)", "get_current_queue (rollback)"}

PerformanceWarnings ==
    {i \in 1..Len(warnings) : warnings[i].category = "NumbaPerformanceWarning"}

\* C1: when the CPU path starts after a failed device attempt, the
\* descriptor and IR of cpu_lower have the canonical form that the host
\* function had at entry of lower(): nothing the device attempt did to the
\* descriptor or the IR of gpu_lower shows in them.
C1_Rollback ==
    pc = "cpu_lower" => Canon(heap, Roots(cpu_lower)) = snap.ir

\* the CPU path starts after the device attempt has changed its own IR
C1_Witness ==
    /\ pc = "cpu_lower"
    /\ exc = "backend"
    /\ Canon(heap, Roots(gpu_lower)) # snap.ir

\* C2 as stated: every failure of the device attempt ends in a return of
\* lower() with the outcome CPU-lowered.
C2_NeverAborts ==
    (DeviceFailed /\ pc \in {"returned", "raised"})
        => (pc = "returned" /\ base_lower = "cpu_lower")

\* C2, amended: with config.FALLBACK_ON_CPU = 1 every failure of the device
\* attempt starts the sequential path once and lower() ends CPU-lowered
\* unless cpu_lower.lower() raises, whose exception then leaves lower();
\* with any other value the exception of the device attempt leaves lower()
\* and the sequential path is not started.
C2_FallbackWhenEnabled ==
    (DeviceFailed /\ pc \in {"cpu_lower", "finish", "returned", "raised"})
        => IF cfg.FALLBACK_ON_CPU = 1
           THEN /\ cpuStarts = 1
                /\ pc \in {"finish", "returned"} => base_lower = "cpu_lower"
                /\ pc = "raised" => exc = "cpu_lower"
           ELSE /\ cpuStarts = 0
                /\ pc = "raised"
                /\ exc # "cpu_lower"

\* a failed device attempt has ended CPU-lowered
C2_Witness ==
    /\ pc = "returned"
    /\ cpuStarts = 1
    /\ base_lower = "cpu_lower"
    /\ cfg.hasParfor

\* the counts of the attempts and the outcome recorded at a return
C3_StateInv ==
    /\ gpuStarts <= 1 /\ cpuStarts <= 1
    /\ pc \notin {"idle", "init", "constructed"} => gpuStarts = 1
    /\ cpuStarts = 1 => pc \in {"cpu_lower", "finish", "returned", "raised"}
    /\ pc = "returned" =>
          /\ base_lower = (IF cpuStarts = 1 THEN "cpu_lower" ELSE "gpu_lower")
          /\ env = base_lower
          /\ call_helper = base_lower

\* where an attempt may start
C3_StepInv ==
    /\ gpuStarts' = gpuStarts + 1 => pc = "constructed"
    /\ cpuStarts' = cpuStarts + 1 => (pc = "lower_except" /\ exc # "none" /\ gpuStarts = 1)

\* C3: in a run of lower() the device attempt is started exactly once and
\* from the entry only, the CPU attempt at most once and only from the
\* except clause with the exception of the device attempt in flight; once
\* the CPU attempt has started no step of the device attempt is taken; a
\* normal return has recorded exactly one outcome, gpu_lower if the CPU
\* attempt was not started and cpu_lower if it was, and env and call_helper
\* are those of base_lower.
C3_OrderedAlternatives == [](C3_StateInv) /\ [][C3_StepInv]_vars

\* both outcomes are reached
C3_Witness ==
    /\ pc = "returned"
    /\ runs = MaxRuns
    /\ base_lower = "cpu_lower"
    /\ keep_alive_kernels # <<>>

\* what lower() leaves when the retry has failed
C4_StateInv ==
    /\ cpuStarts <= 1
    /\ (pc = "raised" /\ cpuStarts = 1) =>
          /\ exc = "cpu_lower"
          /\ gpuStarts = 1
          /\ base_lower = "unset" /\ env = "unset" /\ call_helper = "unset"

\* after the exception has left lower() only another compilation follows
C4_StepInv == pc = "raised" => (pc' = "init" /\ runs' = runs + 1)

\* C4: when the sequential retry fails after a failed device attempt, its
\* exception is the one that leaves lower(); base_lower, env and
\* call_helper are not assigned; no lowering attempt follows: each attempt
\* was started once and lower() takes no further step.
C4_RetryFailurePropagates == [](C4_StateInv) /\ [][C4_StepInv]_vars

\* the sequential retry has failed
C4_Witness ==
    /\ pc = "raised"
    /\ cpuStarts = 1
    /\ exc = "cpu_lower"

\* C5: when lower() returns without an exception having left the device
\* attempt, the outcome is device-lowered (base_lower, env and call_helper
\* are gpu_lower's) and the table holds for parfor.Parfor the handler it
\* held when lower() was entered.
C5_DeviceLoweredRestores ==
    (pc \in {"finish", "returned"} /\ cpuStarts = 0)
        => /\ base_lower = "gpu_lower"
           /\ lower_extensions = snap.table
           /\ pc = "returned" => (env = "gpu_lower" /\ call_helper = "gpu_lower")

\* a loop nest was offloaded through the override and lower() has returned
C5_Witness ==
    /\ pc = "returned"
    /\ cpuStarts = 0
    /\ cfg.hasExt
    /\ enqueued # <<>>
    /\ "parfor" \in extra_info

\* C6 as stated: when the CPU retry starts, exactly one performance warning
\* has been emitted and it includes the cause of the failure.
C6_OneWarningWithCause ==
    pc = "cpu_lower"
        => /\ Cardinality(PerformanceWarnings) = 1
           /\ \A i \in PerformanceWarnings : exc \in SeqRange(warnings[i].msg)

\* C6, amended: a failure raised inside the handler of the loop nest
\* (lower_parfor_rollback) has emitted exactly one performance warning when
\* the except clause of lower() is reached; a failure raised outside it, or
\* a failure of the device query in the handler's except clause, has
\* emitted none; the warning names the device and not the cause.
C6_WarningFromHandlerOnly ==
    pc \in {"lower_except", "cpu_lower"}
        => /\ Cardinality(PerformanceWarnings) = (IF exc \in OutsideHandler THEN 0 ELSE 1)
           /\ \A i \in PerformanceWarnings :
                 /\ device_filter_str \in SeqRange(warnings[i].msg)
                 /\ exc \notin SeqRange(warnings[i].msg)

\* the CPU retry starts after a failure inside the handler
C6_Witness ==
    /\ pc = "cpu_lower"
    /\ exc = "enqueue_kernel_and_copy_back"
    /\ Cardinality(PerformanceWarnings) = 1

\* a race variable has been turned into an array in the typemap
RacePromoted(h) ==
    \E v \in h[id.RacesSet].aset : DictGet(h[GpuTypemap(h)], v) = id.TyArray

SafetyWarnings ==
    {i \in 1..Len(warnings) : warnings[i].category = "NumbaParallelSafetyWarning"}

\* the error of a reduction loop nest has just been raised
ReductionRaised ==
    pc = "rollback_except" /\ exc = "Reductions are not yet supported via parfor"

\* the positions of the outliner behind the reduction check, and of the
\* launch sequence
PastReductionCheck ==
    {"gufunc_races", "gufunc_legalize", "gufunc_stub", "gufunc_splice", "gufunc_compile",
     "launch_queue", "launch_alloc", "launch_keep", "launch_args", "launch_ranges",
     "launch_enqueue", "launch_free"}

C8_FatalNeverRetried == exc \in Unsupported => (pc # "cpu_lower" /\ cpuStarts = 0)

\* where the error of an unsupported construct ends
C8_StateInv ==
    (exc \in Unsupported /\ pc \in {"cpu_lower", "raised"})
        => IF cfg.FALLBACK_ON_CPU = 1
           THEN pc = "cpu_lower" /\ cpuStarts = 1
           ELSE pc = "raised" /\ cpuStarts = 0

\* the way of the error: handler, except clause of lower(), then fallback or caller
C8_StepInv ==
    /\ (exc' \in Unsupported /\ exc = "none") => pc' = "rollback_except"
    /\ (exc \in Unsupported /\ pc = "rollback_except") => pc' = "lower_except"
    /\ (exc \in Unsupported /\ pc = "lower_except") => pc' \in {"cpu_lower", "raised"}

\* C8, amended: the error of an unsupported construct is handled like any
\* other failure of the device attempt: it goes from the handler of the
\* loop nest to the except clause of lower(); with
\* config.FALLBACK_ON_CPU = 1 the sequential fallback is run for it, with
\* any other value it reaches the caller of lower().
C8_UnsupportedFallsBack == [](C8_StateInv) /\ [][C8_StepInv]_vars

\* the sequential fallback is entered for a step that is not 1
C8_Witness ==
    /\ pc = "cpu_lower"
    /\ exc = "AssertionError"
    /\ cfg.step # 1

(***************************************************************************)
(* Properties of _schedule_loop (specification SpecSched).  The text is    *)
(* read back line by line.                                                 *)
(***************************************************************************)
NewlinesAt(t) == {i \in 1..Len(t) : t[i] = "\n"}

NumLines(t) == Cardinality(NewlinesAt(t))

\* the position of the newline that ends line k
LineEnd(t, k) ==
    CHOOSE i \in NewlinesAt(t) : Cardinality({j \in NewlinesAt(t) : j <= i}) = k

\* line k of t, without its newline
Line(t, k) == SubSeq(t, IF k = 1 THEN 1 ELSE LineEnd(t, k - 1) + 1, LineEnd(t, k) - 1)

LeadingSpaces(l) ==
    CHOOSE n \in 0..Len(l) : (\A i \in 1..n : l[i] = " ") /\ (n = Len(l) \/ l[n + 1] # " ")

Stripped(l) == SubSeq(l, LeadingSpaces(l) + 1, Len(l))

StartsWith(l, prefix) == Len(l) >= Len(prefix) /\ SubSeq(l, 1, Len(prefix)) = prefix

Contains(l, part) == \E i \in 1..Len(l) : StartsWith(SubSeq(l, i, Len(l)), part)

\* the lines that bind a hardware coordinate, and the loop headers
BindingLines(t) == {k \in 1..NumLines(t) : Contains(Line(t, k), TxtGlobalId)}

ForLines(t) == {k \in 1..NumLines(t) : StartsWith(Stripped(Line(t, k)), TxtFor)}

\* line k binds the index variable of dimension k - 1 to axis k - 1
BindsAxis(t, k) ==
    Stripped(Line(t, k)) =
        sched_args.legal_loop_indices[k] \o <<" ", "=", " ">> \o TxtGlobalId
            \o <<Digits[k]>> \o <<")">>

\* a bound after the renaming of the variables m.2 and n.1
Renamed(b) ==
    IF b = NmStart THEN <<"m", "_", "2">>
    ELSE IF b = NmStop THEN <<"n", "_", "1">>
    ELSE b

\* line k is the header of the loop over dimension k - 1, from start to
\* stop inclusive
LoopsOver(t, k) ==
    Stripped(Line(t, k)) =
        <<"f", "o", "r", " ">> \o sched_args.legal_loop_indices[k]
            \o <<" ", "i", "n", " ", "r", "a", "n", "g", "e", "(">>
            \o Renamed(sched_args.loop_ranges[k].start) \o <<",", " ">>
            \o Renamed(sched_args.loop_ranges[k].stop)
            \o <<" ", "+", " ", "1", ")", ":">>

\* C9: for 1, 2 or 3 dimensions the text binds exactly one index variable
\* per dimension, the variable of dimension i to get_global_id(i), and has
\* no loop header.
C9_AllAxesBound ==
    (pc = "scheduled" /\ sched_args.parfor_dim \in 1..3)
        => /\ BindingLines(gufunc_txt) = 1..sched_args.parfor_dim
           /\ \A k \in 1..sched_args.parfor_dim : BindsAxis(gufunc_txt, k)
           /\ ForLines(gufunc_txt) = {}

C9_Witness ==
    /\ pc = "scheduled"
    /\ sched_args.parfor_dim = 3
    /\ NumLines(gufunc_txt) = 3

\* C10: for more than 3 dimensions the text binds the index variables of
\* dimensions 0, 1, 2 to get_global_id(0), (1), (2) and has one loop header
\* for each further dimension, in order, over range(start, stop + 1) with
\* the variable bounds renamed by param_dict, each header one level of
\* indentation deeper than the header before it.
C10_ThreeAxesThenLoops ==
    (pc = "scheduled" /\ sched_args.parfor_dim > 3)
        => /\ BindingLines(gufunc_txt) = 1..3
           /\ \A k \in 1..3 : BindsAxis(gufunc_txt, k)
           /\ ForLines(gufunc_txt) = 4..sched_args.parfor_dim
           /\ \A k \in 4..sched_args.parfor_dim : LoopsOver(gufunc_txt, k)
           /\ \A k \in 5..sched_args.parfor_dim :
                 LeadingSpaces(Line(gufunc_txt, k))
                     = LeadingSpaces(Line(gufunc_txt, k - 1)) + Len(Ind4)

C10_Witness ==
    /\ pc = "scheduled"
    /\ sched_args.parfor_dim = MaxDim
    /\ sched_args.loop_ranges[4].stop = NmStop
    /\ sched_args.loop_ranges[MaxDim].start = NmStart
    /\ NumLines(gufunc_txt) = MaxDim


(***************************************************************************)
(* Properties of the launch sequence and of the kernel outliner            *)
(* (specification Spec).                                                   *)
(***************************************************************************)
\* the positions of the scalars, and of the arrays of r dimensions, in the
\* argument list of the kernel
ScalarArgs == {i \in 1..Len(outline.func_arg_types) : heap[outline.func_arg_types[i]].cls # "Array"}

ArrayArgs(r) ==
    {i \in 1..Len(outline.func_arg_types) :
        /\ heap[outline.func_arg_types[i]].cls = "Array"
        /\ heap[outline.func_arg_types[i]].atoms[1] = str(r)}

MaxRank == 2

RECURSIVE ArraySlots(_)
\* the slots of the arrays of up to r dimensions: 5 + 2r each
ArraySlots(r) ==
    IF r < 0 THEN 0 ELSE (Cardinality(ArrayArgs(r)) * (5 + (2 * r))) + ArraySlots(r - 1)

\* C12: once the argument buffer is allocated it has one slot per scalar
\* argument and 5 + 2r slots per array argument of r dimensions (5 for an
\* array of no dimension), and no argument is processed into the buffer
\* before it is allocated.
C12_BufferSized ==
    /\ launcher.kernel_arg_array # -1 =>
          launcher.kernel_arg_array = Cardinality(ScalarArgs) + ArraySlots(MaxRank)
    /\ launcher.args # <<>> => launcher.kernel_arg_array # -1

\* the buffer of 5 + 7 slots for an array of no dimension and an array of
\* one, before the first argument is processed
C12_Witness ==
    /\ pc = "launch_args"
    /\ launcher.args = <<>>
    /\ Cardinality(ArrayArgs(0)) = 1
    /\ Cardinality(ArrayArgs(1)) = 1
    /\ launcher.kernel_arg_array = 12

\* the parameters of the loop nest that its body stores into, and the others
WrittenParams == SetItemTargets(heap, LoopBlocks(heap)) \cap heap[id.ParamsSet].aset
ReadOnlyParams == heap[id.ParamsSet].aset \ WrittenParams

\* C14: the argument list the outliner orders has every parameter of the
\* loop nest (the variables named in the loop bounds included) once, every
\* input before every output; one input array and one output array give
\* (input, output); and the number of inputs handed to the launch generator
\* is the number of inputs in the list.
C14_InputsThenOutputs ==
    LET P == outline.parfor_params IN
    /\ pc = "gufunc_legalize" =>
          /\ SeqRange(P) = heap[id.ParamsSet].aset
          /\ \A i, j \in 1..Len(P) : P[i] = P[j] => i = j
          /\ \A i, j \in 1..Len(P) : P[i] \in ReadOnlyParams /\ P[j] \in WrittenParams => i < j
          /\ ReadOnlyParams = {NmA} /\ WrittenParams = {NmOut} => P = <<NmA, NmOut>>
    /\ pc = "launch_queue" =>
          outline.num_inputs = Cardinality({i \in 1..Len(P) : P[i] \in SeqRange(outline.parfor_inputs)})

\* a loop nest whose stop is the variable n.1: the list is (a, n.1, b.1),
\* not the sorted (a, b.1, n.1), and two inputs are handed on
C14_Witness ==
    /\ pc = "launch_queue"
    /\ outline.parfor_params = <<NmA, NmStop, NmOut>>
    /\ outline.parfor_inputs = <<NmA, NmStop>>
    /\ outline.num_inputs = 2

\* every loop nest of the loop being lowered has step 1
UnitSteps == \A i \in 1..Len(LoopNests(heap)) : heap[LoopNests(heap)[i]].atoms[3] = <<"1">>

\* C15: the launch generator enqueues no kernel for a loop of which some
\* dimension has a step other than 1: the steps are checked before the
\* enqueue is reached.
C15_NoEnqueueUnlessUnitStep ==
    /\ [](pc = "launch_enqueue" => UnitSteps)
    /\ [][enqueued' # enqueued => UnitSteps]_vars

\* a loop of step 2 got as far as the check, which raised, with nothing
\* enqueued
C15_Witness ==
    /\ pc = "rollback_except"
    /\ exc = "AssertionError"
    /\ ~UnitSteps
    /\ launcher.args # <<>>
    /\ enqueued = <<>>

(***************************************************************************)
(* Properties of name legalization (specification SpecLegal).              *)
(***************************************************************************)
\* the characters that legalization replaces
SpecialChars == {"_", "$", "."}

HasSpecial(n) == \E k \in 1..Len(n) : n[k] \in SpecialChars

\* the entry of name n in the typemap of the call
LegalEntry(n) == DictGet(heap[legal.typemap], n)

\* C11: legalizing the names a call returned yields them unchanged, and after
\* a call every legalized name has the typemap entry that the name it was
\* derived from had.
C11_IdempotentAndSynchronized ==
    /\ pc = "legalized_twice" => legal.again = legal.outdict
    /\ pc = "legalized" =>
          \A i \in 1..Len(legal.names) :
              LegalEntry(legal.outdict[i]) = DictGet(legal.before, legal.names[i])

\* the legalized form of name i is that of no other name of the call, and
\* name i is not the legalized form of another name of the call
Unshared(i) ==
    \A j \in 1..Len(legal.names) :
        j # i => /\ legal.outdict[j] # legal.outdict[i]
                 /\ legal.outdict[j] # legal.names[i]

\* C11, amended: a name is returned unchanged exactly when it holds none of
\* "_", "$" and "." (an underscore is doubled, so legalizing a returned name
\* that holds one changes it again); after a call every legalized name has
\* an entry in the typemap, and the entry is the one its pre-image had
\* before the call whenever the legalized name is shared with no other
\* name of the call.
C11_LegalNamesFixedAndTyped ==
    /\ pc \in {"legalized", "legalized_twice"} =>
          \A i \in 1..Len(legal.names) :
              (legal.outdict[i] = legal.names[i]) <=> ~HasSpecial(legal.names[i])
    /\ pc = "legalized_twice" =>
          \A i \in 1..Len(legal.outdict) :
              (legal.again[i] = legal.outdict[i]) <=> ~HasSpecial(legal.outdict[i])
    /\ pc = "legalized" =>
          \A i \in 1..Len(legal.names) :
              /\ DictHas(heap[legal.typemap], legal.outdict[i])
              /\ Unshared(i) =>
                    LegalEntry(legal.outdict[i]) = DictGet(legal.before, legal.names[i])

\* a name with a period was legalized, its legal name typed like it, and
\* the second call doubled the underscore
C11_Witness ==
    /\ pc = "legalized_twice"
    /\ legal.names[1] = <<"a", ".", "1">>
    /\ legal.outdict[1] = <<"a", "_", "1">>
    /\ legal.again[1] = <<"a", "_", "_", "1">>
    /\ LegalEntry(<<"a", "_", "1">>) = DictGet(legal.before, <<"a", ".", "1">>)

(***************************************************************************)
(* Properties of replace_var_with_array (specification SpecRaces).         *)
(***************************************************************************)
RECURSIVE Shape(_, _)
\* the statements ids of heap h read back
Shape(h, ids) ==
    IF ids = <<>> THEN <<>>
    ELSE LET ob == h[Head(ids)]
             st == CASE ob.cls = "Assign" ->
                          St("assign", h[ob.refs[1]].atoms[1], h[ob.refs[2]].atoms[1], <<>>, <<>>, <<>>)
                     [] ob.cls = "SetItem" ->
                          St("setitem", h[ob.refs[1]].atoms[1], h[ob.refs[3]].atoms[1],
                             h[ob.refs[2]].atoms[1], <<>>, <<>>)
                     [] ob.cls = "Parfor" ->
                          Nested(Shape(h, h[h[ob.refs[1]].refs[1]].refs),
                                 Shape(h, h[h[h[ob.refs[2]].refs[1]].refs[1]].refs))
                     [] ob.cls = "Del" ->
                          St("del", ob.atoms[1], <<>>, <<>>, <<>>, <<>>)
                     [] OTHER -> St(ob.cls, <<>>, <<>>, <<>>, <<>>, <<>>)
         IN  <<st>> \o Shape(h, Tail(ids))

RECURSIVE CountAssigns(_, _)
\* the direct assignments to a name of the set names in stmts, at any depth
CountAssigns(stmts, names) ==
    IF stmts = <<>> THEN 0
    ELSE (IF Head(stmts).op = "assign" /\ Head(stmts).var \in names THEN 1
          ELSE IF Head(stmts).op = "parfor"
          THEN CountAssigns(Head(stmts).init, names) + CountAssigns(Head(stmts).body, names)
          ELSE 0) + CountAssigns(Tail(stmts), names)

RECURSIVE CountStores(_, _)
\* the stores into a name of the set names at the constant index, each right after
\* the assignment of 0 to its index variable
CountStores(stmts, names) ==
    IF stmts = <<>> THEN 0
    ELSE (IF /\ Len(stmts) >= 2
             /\ stmts[1] = St("assign", NmConst, <<"0">>, <<>>, <<>>, <<>>)
             /\ stmts[2].op = "setitem" /\ stmts[2].var \in names /\ stmts[2].index = NmConst
          THEN 1
          ELSE IF Head(stmts).op = "parfor"
          THEN CountStores(Head(stmts).init, names) + CountStores(Head(stmts).body, names)
          ELSE 0) + CountStores(Tail(stmts), names)

RECURSIVE WithoutRewrites(_, _)
\* stmts without the assignments to names of the set names, and without the stores
\* at the constant index and the assignments of their index variables
WithoutRewrites(stmts, names) ==
    IF stmts = <<>> THEN <<>>
    ELSE LET st == Head(stmts) IN
         (IF st.op = "parfor"
          THEN <<Nested(WithoutRewrites(st.init, names), WithoutRewrites(st.body, names))>>
          ELSE IF \/ st.op = "assign" /\ st.var \in names \cup {NmConst}
                  \/ st.op = "setitem" /\ st.var \in names /\ st.index = NmConst
          THEN <<>>
          ELSE <<st>>) \o WithoutRewrites(Tail(stmts), names)

\* the loop body of the host function of heap h, read back: the statements
\* of its block with the names of their variables
BodyShape(h) == Shape(h, h[h[LoopBlocks(h)[1]].refs[1]].refs)
LoopBodyShape == BodyShape(heap)

\* the host function's own store into b.1
HostStore == St("setitem", NmOut, NmT, NmIdx, <<>>, <<>>)

\* C13: after replace_var_with_array, for a race variable with N direct
\* assignments anywhere in the loop body (nested init blocks and bodies
\* included) there are exactly N stores into it at index 0, no assignment
\* to it remains, the other statements are what they were, and its typemap
\* entry is the one-dimensional array type over its former type.
C13_RewritesAndPromotion ==
    pc = "raced" =>
        /\ CountStores(LoopBodyShape, race_args.vars) = CountAssigns(race_args.body, race_args.vars)
        /\ CountAssigns(LoopBodyShape, race_args.vars) = 0
        /\ WithoutRewrites(LoopBodyShape, race_args.vars)
             = WithoutRewrites(race_args.body, race_args.vars) \o <<HostStore>>
        /\ \A v \in race_args.vars :
             LET ty == heap[DictGet(heap[GpuTypemap(heap)], v)]
             IN  ty.cls = "Array" /\ ty.atoms = <<<<"1">>>> /\ ty.refs = <<race_args.el_typ>>

\* three assignments to r, two of them in the init block and in the body of
\* a loop nest nested two deep, were rewritten and r of integer type was
\* promoted
C13_Witness ==
    /\ pc = "raced"
    /\ race_args.body = <<AssignR, Nested(<<AssignR>>, <<Nested(<<>>, <<AssignT, AssignR>>)>>)>>
    /\ race_args.el_typ = id.TyInt
    /\ CountStores(LoopBodyShape, race_args.vars) = 3
    /\ DictGet(heap[GpuTypemap(heap)], NmR) = id.TyIntArray

(***************************************************************************)
(* The loop body of the host function across the outliner (specification   *)
(* Spec).                                                                  *)
(***************************************************************************)
\* the loop body of the function being compiled as DPPYLower received it
HostBodyBefore ==
    BodyShape(HostIR(cfg.hasParfor, cfg.races, cfg.stopIsVar, str(cfg.step), cfg.tyA, cfg.tyOut))

\* the causes raised inside _create_gufunc_for_parfor_body
OutlinerCauses ==
    {"Reductions are not yet supported via parfor", "frontend", "queue",
     "remove_dead", "dufunc_inliner", "backend"}

\* C16: when _create_gufunc_for_parfor_body has returned or raised, the
\* block of the loop body of the host function has the statements it had
\* (its ir.Del statements included) with the variable names they had.
C16_HostBlocksUntouched ==
    (pc = "launch_queue" \/ (pc = "rollback_except" /\ exc \in OutlinerCauses))
        => LoopBodyShape = HostBodyBefore

(***************************************************************************)
(* The noalias flag across the outliner (specification Spec).              *)
(***************************************************************************)
\* the causes raised between the setting of the flag and line 677
CompileCauses == {"remove_dead", "dufunc_inliner", "backend"}

\* C17: on every exit of _create_gufunc_for_parfor_body past line 639, by
\* return or by an exception of remove_dead, dufunc_inliner or
\* compile_kernel_parfor, flags.noalias has the value it had at line 635.
C17_NoAliasRestored ==
    (pc = "launch_queue" \/ (pc = "rollback_except" /\ exc \in CompileCauses))
        => outline.flags.noalias = outline.old_alias

(***************************************************************************)
(* The queue and the keep-alive list of generate_kernel_launch_ops         *)
(* (specification Spec).                                                   *)
(***************************************************************************)
\* the causes raised inside generate_kernel_launch_ops after line 946
LaunchCauses ==
    {"allocate_kernel_arg_array", "process_kernel_arg", "AssertionError",
     "enqueue_kernel_and_copy_back"}

\* C18: on every exit of generate_kernel_launch_ops, by return or by an
\* exception raised after the queue was acquired, the queue reference it
\* acquired has been freed.
C18_QueueFreedOnEveryExit ==
    (pc = "gpu_rest" \/ (pc = "rollback_except" /\ exc \in LaunchCauses))
        => queue_refs = 0

\* C19: the kernel of a lowering is in keep_alive_kernels before any of its
\* arguments is processed and before it is enqueued; no step takes an
\* entry out of the list, so that it only grows across lowerings and every
\* kernel ever enqueued is in it.
C19_KeptAliveBeforeUse ==
    /\ [](launcher.args # <<>> => Cres \in SeqRange(keep_alive_kernels))
    /\ [](pc = "launch_enqueue" => Cres \in SeqRange(keep_alive_kernels))
    /\ [](SeqRange(enqueued) \subseteq SeqRange(keep_alive_kernels))
    /\ [][/\ Len(keep_alive_kernels') >= Len(keep_alive_kernels)
          /\ SubSeq(keep_alive_kernels', 1, Len(keep_alive_kernels)) = keep_alive_kernels]_vars

\* the second lowering of the process has just enqueued its kernel: both
\* kernels are kept, the first a whole lowering after its launch
C19_Witness ==
    /\ pc = "launch_free"
    /\ runs = 2
    /\ enqueued = <<1, 2>>
    /\ keep_alive_kernels = <<1, 2>>

(***************************************************************************)
(* The address spaces of the kernel parameters (specification Spec).       *)
(***************************************************************************)
\* the type typemap[v] of parameter i is an array type; its dimensions
ParamIsArray(i) == heap[outline.func_arg_types[i]].cls = "Array"
ParamRank(i) == heap[outline.func_arg_types[i]].atoms[1]

\* one address space per parameter, and the type of parameter i was
\* converted to the device array type exactly if it has an address space
TagsAndConversions ==
    /\ Len(outline.addrspaces) = Len(outline.parfor_params)
    /\ Len(outline.param_types_addrspaces) = Len(outline.parfor_params)
    /\ \A i \in 1..Len(outline.parfor_params) :
         /\ outline.addrspaces[i] \in {"global", "None"}
         /\ outline.param_types_addrspaces[i].cls = "DPPYArray" <=> outline.addrspaces[i] # "None"
         /\ outline.param_types_addrspaces[i].cls = "DPPYArray" =>
                outline.param_types_addrspaces[i].addrspace = outline.addrspaces[i]

\* C20 as stated: every parameter of an array type, of whatever number of
\* dimensions, has the global address space, every other parameter has
\* none, and the types of the parameters with an address space, and only
\* these, are converted to the device array type.
C20_EveryArrayGlobal ==
    pc = "gufunc_stub" =>
        /\ TagsAndConversions
        /\ \A i \in 1..Len(outline.parfor_params) :
             outline.addrspaces[i] = (IF ParamIsArray(i) THEN "global" ELSE "None")

\* C20, amended: a parameter of an array type of one dimension or more has
\* the global address space; a scalar parameter and a parameter that is an
\* array of no dimension, which is passed as its dtype, have none; the
\* types of the parameters with an address space, and only these, are
\* converted to the device array type.
C20_ArraysWithDimensionsGlobal ==
    pc = "gufunc_stub" =>
        /\ TagsAndConversions
        /\ \A i \in 1..Len(outline.parfor_params) :
             /\ outline.addrspaces[i] =
                   (IF ParamIsArray(i) /\ ParamRank(i) # <<"0">> THEN "global" ELSE "None")
             /\ outline.param_types[i] =
                   (IF ParamIsArray(i) /\ ParamRank(i) = <<"0">>
                    THEN heap[outline.func_arg_types[i]].refs[1]
                    ELSE outline.func_arg_types[i])

\* the parameters a, an array of no dimension, n.1, an integer, and b.1, an
\* array of one dimension: only b.1 has an address space, a is passed as
\* its dtype
C20_Witness ==
    /\ pc = "gufunc_stub"
    /\ outline.func_arg_types = <<id.TyArray0, id.TyArray>>
    /\ outline.addrspaces = <<"None", "global">>
    /\ outline.param_types = <<id.TyScalar, id.TyArray>>
    /\ outline.param_types_addrspaces[2] = [cls |-> "DPPYArray", of |-> id.TyArray, addrspace |-> "global"]

(***************************************************************************)
(* Properties of _create_shape_signature (specification SpecShape).  The   *)
(* entry of an argument is the entry at its position, as the zip of line   *)
(* 890 and the zip of generate_kernel_launch_ops (line 995) pair them.     *)
(***************************************************************************)
\* the positions <<k, i>> of the letters of the signature
LetterPositions ==
    {<<k, i>> \in (1..Len(shape_args.gu_signature.sin)) \X (1..2) :
        i <= Len(shape_args.gu_signature.sin[k])}

LetterAt(p) == shape_args.gu_signature.sin[p[1]][p[2]]

\* the classes of argument k: those get_shape_classes gives, (-1,) for a
\* race variable
ClassesOfArg(k) ==
    IF shape_args.args[k] \in shape_args.races THEN <<0 - 1>> ELSE shape_args.shape[k]

C22_ScheduleClassLargest ==
    pc = "shaped" =>
        /\ \A k \in 1..Len(shape_args.args) :
              \A i \in 1..Len(ClassesOfArg(k)) : ClassesOfArg(k)[i] < shape_args.max_class
        /\ \A p \in LetterPositions : p[1] > 1 => LetterAt(p) # LetterAt(<<1, 1>>)

\* C23: after the entry of the schedule the signature has one entry per
\* argument, the first included, with a letter per dimension of the
\* argument, and two dimensions of arguments that are not race variables
\* have the same letter exactly when they have the same class (a dimension
\* of class -1 has none).
C23_EntryPerArgument ==
    pc = "shaped" =>
        LET sin == shape_args.gu_signature.sin
            n   == Len(shape_args.args)
        IN  /\ Len(sin) = n + 1
            /\ \A k \in 1..n : Len(sin[k + 1]) = Len(ClassesOfArg(k))
            /\ \A k, l \in 1..n :
                 \A i \in 1..Len(ClassesOfArg(k)), j \in 1..Len(ClassesOfArg(l)) :
                    (/\ shape_args.args[k] \notin shape_args.races
                     /\ shape_args.args[l] \notin shape_args.races
                     /\ ClassesOfArg(k)[i] >= 0 /\ ClassesOfArg(l)[j] >= 0)
                    => ((sin[k + 1][i] = sin[l + 1][j]) <=> (ClassesOfArg(k)[i] = ClassesOfArg(l)[j]))

(***************************************************************************)
(* Properties of the splice (specification SpecSplice).                    *)
(***************************************************************************)
\* the labels of the blocks of the loop body after the offset
BodyLabels == DOMAIN splice.loop_body

\* C24: after the offset the labels of the loop body are none of the stub's
\* and the new label is none of either; the result has every block of the
\* stub and of the loop body and the block of the new label; the block
\* under the label of the sentinel block is the statements before the
\* sentinel and a jump to the lowest label of the loop body; the block of
\* the highest label of the loop body ends with a jump to the new label,
\* under which the statements after the sentinel are; every other block is
\* as it was; and no block holds the sentinel assignment.
C24_SpliceKeepsEveryBlock ==
    /\ pc \in {"splice_blocks", "spliced"} =>
          /\ BodyLabels \cap DOMAIN splice.stub = {}
          /\ Cardinality(BodyLabels) = Cardinality(DOMAIN splice.body)
          /\ splice.new_label \notin BodyLabels \cup DOMAIN splice.stub
    /\ pc = "spliced" =>
          LET label == SentinelLabel(splice.stub)
              i     == SentinelIndex(splice.stub[label])
              last  == SetMax(BodyLabels)
              out   == splice.gufunc_ir
          IN  /\ DOMAIN out = DOMAIN splice.stub \cup BodyLabels \cup {splice.new_label}
              /\ out[label] = Append(SubSeq(splice.stub[label], 1, i - 1), Jump(SetMin(BodyLabels)))
              /\ out[splice.new_label] = SubSeq(splice.stub[label], i + 1, Len(splice.stub[label]))
              /\ out[last] = Append(splice.loop_body[last], Jump(splice.new_label))
              /\ \A l \in BodyLabels \ {last} : out[l] = splice.loop_body[l]
              /\ \A l \in DOMAIN splice.stub \ {label} : out[l] = splice.stub[l]
              /\ \A l \in DOMAIN out : ~HasSentinel(out[l])

\* a stub of the blocks 0, 2 and 3 with the sentinel in block 2 and a loop
\* body of the blocks 0 and 3, which become 4 and 7: the second half of
\* block 2 is block 8
C24_Witness ==
    /\ pc = "spliced"
    /\ DOMAIN splice.stub = {0, 2, 3}
    /\ SentinelLabel(splice.stub) = 2
    /\ DOMAIN splice.body = {0, 3}
    /\ DOMAIN splice.gufunc_ir = {0, 2, 3, 4, 7, 8}
    /\ splice.gufunc_ir[4] = <<Stmt("body", 0), Jump(7)>>
    /\ splice.gufunc_ir[7] = <<Stmt("body", 0), Jump(8)>>
(***************************************************************************)
(* Properties of relatively_deep_copy (specification SpecCopy).            *)
(***************************************************************************)
\* the copy the outermost call returned
CopyResult == stack[1].done[1]

\* the objects reachable from o
ReachableFrom(h, o) == {c[1] : c \in AccessPaths(h, <<o>>)}

\* the object found at access path p from o
ObjectAt(h, o, p) == (CHOOSE c \in AccessPaths(h, <<o>>) : c[2] = p)[1]

\* a cycle that runs through o
OnCycle(h, o) == \E k \in 1..Len(h[o].refs) : o \in ReachableFrom(h, h[o].refs[k])

SameShapeAndSharing == Canon(heap, <<CopySource>>) = Canon(heap, <<CopyResult>>)

NoSourceObjectInResult ==
    \A o \in ReachableFrom(heap, CopyResult) :
        Exempt(heap, o) \/ o \notin ReachableFrom(heap, CopySource)

ExemptShared ==
    \A c \in AccessPaths(heap, <<CopySource>>) :
        Exempt(heap, c[1]) =>
            \E d \in AccessPaths(heap, <<CopyResult>>) : d[2] = c[2] /\ d[1] = c[1]

\* C25: a copy made by relatively_deep_copy has the same shape and the same
\* sharing as its source (also on a cycle), no copyable object of the source
\* is reachable from it, and the exempt objects are shared
C25_CopyKeepsShapeAndSharing ==
    pc = "copied" => SameShapeAndSharing /\ NoSourceObjectInResult /\ ExemptShared

\* C25 for the graphs where no cycle runs through a container
C25_NoCycleThroughContainer ==
    (pc = "copied" /\ \A o \in ReachableFrom(heap, CopySource) :
                         heap[o].kind \in Containers => ~OnCycle(heap, o))
        => SameShapeAndSharing /\ NoSourceObjectInResult /\ ExemptShared

\* C28: relatively_deep_copy returns on every finite object graph, cycles
\* through attributes or only through containers included
C28_CopyTerminates == <>(pc = "copied")

\* the graph h without the attributes of its objects: containers and their items
ContainersOnly(h) ==
    [o \in 1..Len(h) |-> IF h[o].kind \in Containers THEN h[o] ELSE [h[o] EXCEPT !.refs = <<>>]]

\* the copy runs out of activations only on a cycle through containers only
RecursionErrorOnlyOnContainerCycle ==
    pc = "copy_raised" =>
        \E o \in 1..Len(heap) : heap[o].kind \in Containers /\ OnCycle(ContainersOnly(heap), o)

(***************************************************************************)
(* Exits of DPPYLower.lower() (specification Spec).                        *)
(***************************************************************************)
\* lower() has returned or raised
LowerExited == pc \in {"returned", "raised"}

\* C26: on every exit from lower() (device-lowered, CPU-lowered or raised)
\* the table of the context no longer maps parfor.Parfor to the device
\* handler lower_parfor_rollback
C26_OverrideGoneOnEveryExit ==
    LowerExited => lower_extensions # "lower_parfor_rollback"

\* C26 for the exits other than the raise with the fallback disabled
OverrideGoneUnlessRaisedWithoutFallback ==
    (LowerExited /\ ~(pc = "raised" /\ cpuStarts = 0))
        => (lower_extensions # "lower_parfor_rollback" \/ snap.table = "lower_parfor_rollback")

\* C27: after lower() has returned, extra_info names a device for the loop
\* nest only if the loop nest was lowered through the device path: a
\* function whose outcome is CPU-lowered has no device recorded for it
C27_DiagnosticsAgreeWithOutcome ==
    (pc = "returned" /\ base_lower = "cpu_lower") => "parfor" \notin extra_info

(***************************************************************************)
(* Properties of the kernel stub text (specification SpecStub).            *)
(***************************************************************************)
\* the lines of the sentinel assignment and of the return
SentinelLines(t) == {k \in 1..NumLines(t) : StartsWith(Stripped(Line(t, k)), TxtSentinel)}

ReturnLines(t) == {k \in 1..NumLines(t) : Stripped(Line(t, k)) = <<"r", "e", "t", "u", "r", "n", " ", "N", "o", "n", "e">>}

\* the indentation of the statements of the function body: that of the first
\* line after "def"
BodyLevel(t) == LeadingSpaces(Line(t, 2))

\* the header of the innermost sequential loop
InnermostFor(t) == CHOOSE k \in ForLines(t) : \A j \in ForLines(t) : j <= k

\* line k is in the body of the loop whose header is line f: every line from
\* f + 1 to k is indented deeper than the header
InBodyOf(t, k, f) == f < k /\ \A j \in (f + 1)..k : LeadingSpaces(Line(t, j)) > LeadingSpaces(Line(t, f))

\* C29: in the stub text the sentinel assignment lies in the body of the
\* innermost sequential loop when D > 3 and at function-body level when
\* D <= 3; the trailing return is at function-body level, outside every loop
C29_SentinelInInnermostLoop ==
    pc = "stub_text" =>
        LET t == gufunc_txt
            n == NumLines(t)
        IN  /\ SentinelLines(t) = {n - 1}
            /\ ReturnLines(t) = {n}
            /\ IF sched_args.parfor_dim > 3
               THEN /\ ForLines(t) # {}
                    /\ InnermostFor(t) = n - 2
                    /\ \A f \in ForLines(t) : InBodyOf(t, n - 1, f)
               ELSE /\ ForLines(t) = {}
                    /\ LeadingSpaces(Line(t, n - 1)) = BodyLevel(t)
            /\ LeadingSpaces(Line(t, n)) = BodyLevel(t)
            /\ \A f \in ForLines(t) : ~InBodyOf(t, n, f)

\* a stub of MaxDim dimensions whose sentinel is deeper than function-body level
C29_Witness ==
    /\ pc = "stub_text"
    /\ sched_args.parfor_dim = MaxDim
    /\ Cardinality(ForLines(gufunc_txt)) = MaxDim - 3
    /\ LeadingSpaces(Line(gufunc_txt, NumLines(gufunc_txt) - 1)) > BodyLevel(gufunc_txt)

(***************************************************************************)
(* Properties of the local-memory pass (specification SpecStaticLocal).    *)
(***************************************************************************)
\* the shape of a local array is a compile-time constant
ConstantShape(d) ==
    \/ d.kind = "Const"
    \/ d.kind = "build_tuple" /\ \A k \in 1..Len(d.items) : d.items[k] = "Const"

\* the local arrays of a function
LocalArrays(blocks) ==
    {<<b, i>> \in (1..Len(blocks)) \X (1..MaxInstrs + 1) :
        i <= Len(blocks[b]) /\ blocks[b][i].op = "local.array"}

AllShapesConstant(blocks) ==
    \A a \in LocalArrays(blocks) : ConstantShape(blocks[a[1]][a[2]].shape)

\* C30: run_pass fails with an error for every function that allocates a
\* local array whose shape is not a compile-time constant (a single value or
\* a tuple with a non-constant item) and returns True for every function
\* whose local-array shapes are all constants
C30_LocalMemorySizeConstant ==
    pc = "pass_done" =>
        IF AllShapesConstant(static_local.blocks)
        THEN static_local.result = "True"
        ELSE static_local.result \in {"RuntimeError", "KeyError"}

\* the pass returns True on constant shapes; when no shape is a single value
\* defined by something other than an expression, it returns True on constant
\* shapes only
StaticLocalTupleChecked ==
    pc = "pass_done" =>
        /\ AllShapesConstant(static_local.blocks) => static_local.result = "True"
        /\ (\A a \in LocalArrays(static_local.blocks) :
                static_local.blocks[a[1]][a[2]].shape.kind # "Arg")
             => (AllShapesConstant(static_local.blocks) <=> static_local.result = "True")

====
